---- MODULE Spec2Model ----
(***************************************************************************)
(* A model of the EMS delegate (delegates/ems.py): the transactional solar *)
(* overhead ledger (SolarOverhead), the OMBC part of a resource-manager    *)
(* session (S2RMDelegate) and the part of the control loop that drives     *)
(* them.                                                                   *)
(*                                                                         *)
(* Power values are Python floats in the program.  Here they are fixed     *)
(* point integers, Scale units per watt; a float division or               *)
(* multiplication is the exact quotient or product rounded to the nearest  *)
(* unit (RoundDiv).  AC_DC_EFFICIENCY = 0.925 is the ratio 37/40.          *)
(***************************************************************************)
EXTENDS Integers, Sequences, FiniteSets, TLC

VARIABLES
    overhead,       \* the SolarOverhead object (of the last control tick, if any)
    system_type,    \* EMS.system_type
    last,           \* the last call made on the ledger: its arguments and outcome
    hist,           \* history of the ledger calls (what the properties refer back to)
    managed_rms,    \* EMS.managed_rms: the S2RMDelegate sessions, in insertion order
    now,            \* the wall clock (datetime.now), in half seconds
    out,             \* the S2 messages the last handler sent, in order
    mainloop        \* the event loop (timers, KeepAlive calls in flight) and the settings
                    \* and attributes of the EMS the timers' callbacks work on

\* ------------------------------------------------------------ arithmetic

\* Units per watt of the fixed point representation.
Scale == 100

\* Calls made on one ledger in the ledger specification.
MaxCalls == 4

W(n) == n * Scale

\* n / d rounded to the nearest unit (d > 0).
RoundDiv(n, d) == (2 * n + d) \div (2 * d)

Max(a, b) == IF a >= b THEN a ELSE b

Min(a, b) == IF a <= b THEN a ELSE b

\* AC_DC_EFFICIENCY = 0.925, as <<numerator, denominator>>.
AC_DC_EFFICIENCY == <<37, 40>>

\* AC_DC_EFFICIENCY ** 2
EfficiencySquared == <<AC_DC_EFFICIENCY[1] * AC_DC_EFFICIENCY[1], AC_DC_EFFICIENCY[2] * AC_DC_EFFICIENCY[2]>>

\* The penalty 1.0 of a saldating system.
NoPenalty == <<1, 1>>

\* x * r and x / r for a ratio r.
MulRatio(x, r) == RoundDiv(x * r[1], r[2])

DivRatio(x, r) == RoundDiv(x * r[2], r[1])

\* ------------------------------------------------------------ enumerations

\* class SystemType (the members the model uses)
GridConnected1Phase == "GridConnected1Phase"

GridConnected2PhaseSaldating == "GridConnected2PhaseSaldating"

GridConnected3PhaseSaldating == "GridConnected3PhaseSaldating"

GridConnected3PhaseIndividual == "GridConnected3PhaseIndividual"

\* CommodityQuantity (the electric members; by_commodity knows L1, L2, L3 only)
ELECTRIC_POWER_L1 == "ELECTRIC_POWER_L1"

ELECTRIC_POWER_L2 == "ELECTRIC_POWER_L2"

ELECTRIC_POWER_L3 == "ELECTRIC_POWER_L3"

ELECTRIC_POWER_3_PHASE_SYMMETRIC == "ELECTRIC_POWER_3_PHASE_SYMMETRIC"

Commodities == {ELECTRIC_POWER_L1, ELECTRIC_POWER_L2, ELECTRIC_POWER_L3, ELECTRIC_POWER_3_PHASE_SYMMETRIC}

\* ------------------------------------------------------------ PhaseAwareFloat

\* PhaseAwareFloat(l1, l2, l3, dc)
PhaseAwareFloat(l1, l2, l3, dc) == [l1 |-> l1, l2 |-> l2, l3 |-> l3, dc |-> dc]

ZeroPAF == PhaseAwareFloat(0, 0, 0, 0)

\* PhaseAwareFloat.total
Total(p) == p.l1 + p.l2 + p.l3 + p.dc

\* PhaseAwareFloat.__add__ / __iadd__
PafAdd(a, b) == PhaseAwareFloat(a.l1 + b.l1, a.l2 + b.l2, a.l3 + b.l3, a.dc + b.dc)

\* PhaseAwareFloat.__sub__ / __isub__
PafSub(a, b) == PhaseAwareFloat(a.l1 - b.l1, a.l2 - b.l2, a.l3 - b.l3, a.dc - b.dc)

\* by_phase[1..4]: the attribute an index names (index 0, total, is read-only)
ByPhase == <<"l1", "l2", "l3", "dc">>

\* by_commodity: the attribute a commodity names
ByCommodity(c) ==
    CASE c = ELECTRIC_POWER_L1 -> "l1"
      [] c = ELECTRIC_POWER_L2 -> "l2"
      [] c = ELECTRIC_POWER_L3 -> "l3"

\* The commodities by_commodity has an attribute for; claim() raises a
\* KeyError on any other one that is not the symmetric three phase power.
KnownCommodity(c) ==
    c \in {ELECTRIC_POWER_L1, ELECTRIC_POWER_L2, ELECTRIC_POWER_L3,
           ELECTRIC_POWER_3_PHASE_SYMMETRIC}

\* Sequencing of statements: x is computed once and F continues with its value.
Then(x, F(_)) == CHOOSE r \in { F(v) : v \in {x} } : TRUE

\* The loop "for l in [1,2,3]" with body Body(st, l), from the state st0.
ForPhases(Body(_, _), st0) ==
    Then(st0, LAMBDA s0 : Then(Body(s0, 1), LAMBDA s1 : Then(Body(s1, 2), LAMBDA s2 : Body(s2, 3))))

\* An attribute that may be None: <<>> is None, <<v>> is the value v.
None == <<>>

Some(v) == <<v>>

\* ------------------------------------------------------------ SolarOverhead

\* One step of the loop "for l in [3,2,1]" of SolarOverhead.__init__:
\* st = [reservation, reserved], power the ledger's power.
ReserveStep(st, power, l) ==
    LET n == ByPhase[l] IN
    IF st.reservation > 0
    THEN IF st.reservation <= MulRatio(power[n], AC_DC_EFFICIENCY)
         THEN [reservation |-> 0,
               reserved |-> [st.reserved EXCEPT ![n] = DivRatio(st.reservation, AC_DC_EFFICIENCY)]]
         ELSE [reservation |-> st.reservation - MulRatio(power[n], AC_DC_EFFICIENCY),
               reserved |-> [st.reserved EXCEPT ![n] = power[n]]]
    ELSE st

\* Mutant of PowerReserved: the phases are drawn on in the order L1, L2, L3.
PowerReserved_L1First(power, reservation) ==
    IF reservation > 0
    THEN IF reservation <= power.dc
         THEN [ZeroPAF EXCEPT !.dc = reservation]
         ELSE LET st0 == [reservation |-> reservation - power.dc,
                          reserved |-> [ZeroPAF EXCEPT !.dc = power.dc]]
              IN ReserveStep(ReserveStep(ReserveStep(st0, power, 1), power, 2), power, 3).reserved
    ELSE ZeroPAF

\* power_reserved as SolarOverhead.__init__ computes it
PowerReserved(power, reservation) ==
    IF reservation > 0
    THEN IF reservation <= power.dc
         THEN [ZeroPAF EXCEPT !.dc = reservation]
         ELSE LET st0 == [reservation |-> reservation - power.dc,
                          reserved |-> [ZeroPAF EXCEPT !.dc = power.dc]]
              IN ReserveStep(ReserveStep(ReserveStep(st0, power, 3), power, 2), power, 1).reserved
    ELSE ZeroPAF

\* SolarOverhead.__init__ (battery_rate and inverterPower, which no operation
\* reads, are left out)
SolarOverhead(l1, l2, l3, dcpv, reservation) ==
    [power |-> PhaseAwareFloat(l1, l2, l3, dcpv),
     power_reserved |-> PowerReserved(PhaseAwareFloat(l1, l2, l3, dcpv), reservation),
     prior_power |-> None,
     power_claim |-> None,
     power_request |-> None,
     battery_reservation |-> reservation,
     transaction_running |-> FALSE]

\* What a call on the ledger gives: the ledger after it, whether it raised,
\* its boolean result (claim) and the claim it returned (comit).
Outcome(ov, raised, ret, claim) == [ov |-> ov, raised |-> raised, ret |-> ret, claim |-> claim]

\* Mutant of SolarOverhead.begin: no check for a running transaction.
SolarOverhead_begin_Unguarded(ov) ==
    Outcome([ov EXCEPT !.prior_power = Some(ov.power),
                       !.power_claim = Some(ZeroPAF),
                       !.transaction_running = TRUE], FALSE, TRUE, None)

\* SolarOverhead.begin
SolarOverhead_begin(ov) ==
    IF ov.transaction_running
    THEN Outcome(ov, TRUE, FALSE, None)
    ELSE Outcome([ov EXCEPT !.prior_power = Some(ov.power),
                            !.power_claim = Some(ZeroPAF),
                            !.transaction_running = TRUE], FALSE, TRUE, None)

\* The claim target: max split onto the phases of the commodity.
ClaimTarget(commodity_quantity, maxv) ==
    IF commodity_quantity = ELECTRIC_POWER_3_PHASE_SYMMETRIC
    THEN PhaseAwareFloat(RoundDiv(maxv, 3), RoundDiv(maxv, 3), RoundDiv(maxv, 3), 0)
    ELSE [ZeroPAF EXCEPT ![ByCommodity(commodity_quantity)] = maxv]

\* Mutant of AcStep: a phase with nothing to claim is handled too (>= 0).
AcStep_ZeroTarget(st, l) ==
    LET n == ByPhase[l] IN
    IF st.target[n] >= 0
    THEN LET claimed == IF st.target[n] <= st.power[n] THEN st.target[n] ELSE Max(st.power[n], 0)
         IN [power |-> [st.power EXCEPT ![n] = @ - claimed],
             claim |-> [st.claim EXCEPT ![n] = claimed],
             target |-> [st.target EXCEPT ![n] = @ - claimed]]
    ELSE st

\* One pass of the loop of _try_claim_ac; st = [power, claim, target].
AcStep(st, l) ==
    LET n == ByPhase[l] IN
    IF st.target[n] > 0
    THEN LET claimed == IF st.target[n] <= st.power[n] THEN st.target[n] ELSE Max(st.power[n], 0)
         IN [power |-> [st.power EXCEPT ![n] = @ - claimed],
             claim |-> [st.claim EXCEPT ![n] = claimed],
             target |-> [st.target EXCEPT ![n] = @ - claimed]]
    ELSE st

\* SolarOverhead._try_claim_ac
TryClaimAc(st) == ForPhases(AcStep, st)

\* Mutant of DcStep: the whole target is taken from dc, whatever dc holds.
DcStep_Overdraw(st, l) ==
    LET n == ByPhase[l] IN
    IF st.target[n] > 0
    THEN [power |-> [st.power EXCEPT !.dc = @ - st.target[n]],
          claim |-> [st.claim EXCEPT !.dc = @ + st.target[n]],
          target |-> [st.target EXCEPT ![n] = 0]]
    ELSE st

\* One pass of the loop of _try_claim_dc.
DcStep(st, l) ==
    LET n == ByPhase[l] IN
    IF st.target[n] > 0
    THEN IF st.target[n] <= st.power.dc
         THEN [power |-> [st.power EXCEPT !.dc = @ - st.target[n]],
               claim |-> [st.claim EXCEPT !.dc = @ + st.target[n]],
               target |-> [st.target EXCEPT ![n] = 0]]
         ELSE LET claimed == Max(st.power.dc, 0)
              IN [power |-> [st.power EXCEPT !.dc = @ - claimed],
                  claim |-> [st.claim EXCEPT !.dc = claimed],
                  target |-> [st.target EXCEPT ![n] = @ - claimed]]
    ELSE st

\* SolarOverhead._try_claim_dc
TryClaimDc(st) == ForPhases(DcStep, st)

\* Mutant of AcdcacDonor: the donor phase gives what arrives, without the
\* conversion losses.
AcdcacDonor_Lossless(st, l, o, efficiency_penalty) ==
    LET n == ByPhase[l]
        m == ByPhase[o]
    IN
    IF l # o
    THEN IF st.power[m] >= st.target[n]
         THEN [power |-> [st.power EXCEPT ![m] = @ - st.target[n]],
               claim |-> [st.claim EXCEPT ![m] = @ + st.target[n]],
               target |-> [st.target EXCEPT ![n] = 0]]
         ELSE [power |-> [st.power EXCEPT ![m] = 0],
               claim |-> [st.claim EXCEPT ![m] = @ + st.power[m]],
               target |-> [st.target EXCEPT ![n] = @ - st.power[m]]]
    ELSE st

\* One pass of the inner loop "for o in [1,2,3]" of _try_claim_acdcac.
AcdcacDonor(st, l, o, efficiency_penalty) ==
    LET n == ByPhase[l]
        m == ByPhase[o]
    IN
    IF l # o
    THEN IF st.power[m] >= DivRatio(st.target[n], efficiency_penalty)
         THEN LET total_claim == DivRatio(st.target[n], efficiency_penalty)
              IN [power |-> [st.power EXCEPT ![m] = @ - total_claim],
                  claim |-> [st.claim EXCEPT ![m] = @ + total_claim],
                  target |-> [st.target EXCEPT ![n] = 0]]
         ELSE LET effective_claim == MulRatio(st.power[m], efficiency_penalty)
                  total_claim == st.power[m]
              IN [power |-> [st.power EXCEPT ![m] = @ - total_claim],
                  claim |-> [st.claim EXCEPT ![m] = @ + total_claim],
                  target |-> [st.target EXCEPT ![n] = @ - effective_claim]]
    ELSE st

\* One pass of the outer loop of _try_claim_acdcac.
AcdcacStep(st, l, efficiency_penalty) ==
    IF st.target[ByPhase[l]] > 0
    THEN ForPhases(LAMBDA s, o : AcdcacDonor(s, l, o, efficiency_penalty), st)
    ELSE st

\* SolarOverhead._try_claim_acdcac
TryClaimAcdcac(st, efficiency_penalty) ==
    ForPhases(LAMBDA s, l : AcdcacStep(s, l, efficiency_penalty), st)

\* Mutant of Cascade: ACDCAC with its penalty comes before DC in every system.
Cascade_AcdcacFirst(st0) ==
    Then(TryClaimAc(st0), LAMBDA st1 :
        IF Total(st1.target) > 0
        THEN IF system_type \in {GridConnected2PhaseSaldating, GridConnected3PhaseSaldating}
             THEN Then(TryClaimAcdcac(st1, NoPenalty), LAMBDA st2 :
                      IF Total(st2.target) > 0 THEN TryClaimDc(st2) ELSE st2)
             ELSE Then(TryClaimAcdcac(st1, EfficiencySquared), LAMBDA st2 :
                      IF Total(st2.target) > 0 THEN TryClaimDc(st2) ELSE st2)
        ELSE st1)

\* Mutant of Cascade: DC comes before ACDCAC in every system.
Cascade_DcFirst(st0) ==
    Then(TryClaimAc(st0), LAMBDA st1 :
        IF Total(st1.target) > 0
        THEN IF system_type \in {GridConnected2PhaseSaldating, GridConnected3PhaseSaldating}
             THEN Then(TryClaimDc(st1), LAMBDA st2 :
                      IF Total(st2.target) > 0 THEN TryClaimAcdcac(st2, NoPenalty) ELSE st2)
             ELSE Then(TryClaimDc(st1), LAMBDA st2 :
                      IF Total(st2.target) > 0 THEN TryClaimAcdcac(st2, EfficiencySquared) ELSE st2)
        ELSE st1)

\* The allocation cascade of claim(): direct AC, then by system type.
Cascade(st0) ==
    Then(TryClaimAc(st0), LAMBDA st1 :
        IF Total(st1.target) > 0
        THEN IF system_type \in {GridConnected2PhaseSaldating, GridConnected3PhaseSaldating}
             THEN Then(TryClaimAcdcac(st1, NoPenalty), LAMBDA st2 :
                      IF Total(st2.target) > 0 THEN TryClaimDc(st2) ELSE st2)
             ELSE Then(TryClaimDc(st1), LAMBDA st2 :
                      IF Total(st2.target) > 0 THEN TryClaimAcdcac(st2, EfficiencySquared) ELSE st2)
        ELSE st1)

\* Mutant of ForceMissing: the missing power is not added to the claim.
ForceMissing_NoClaim(st) ==
    [st EXCEPT !.power.dc = @ - Total(st.target)]

\* The forced part of claim(): what is missing is taken from dc.
ForceMissing(st) ==
    [st EXCEPT !.power.dc = @ - Total(st.target),
               !.claim.dc = @ + Total(st.target)]

\* Mutant of ReservationGate: a Primary is held to the reservation too.
ReservationGate_AlsoPrimary(power, battery_reservation, primary, force) ==
    (Total(power) < battery_reservation) /\ ~force

\* The reservation gate at the end of claim(): TRUE when the claim is rejected.
ReservationGate(power, battery_reservation, primary, force) ==
    (Total(power) < battery_reservation) /\ ~primary /\ ~force

\* The gate of a Primary at the end of claim(): TRUE when the claim is rejected.
PrimaryGate(power, primary, force) ==
    ~force /\ primary /\ ~(Total(power) > W(50))

\* SolarOverhead.claim
SolarOverhead_claim(ov, commodity_quantity, minv, maxv, primary, force) ==
    IF ~ov.transaction_running
    THEN Outcome(ov, TRUE, FALSE, None)
    ELSE Then(ClaimTarget(commodity_quantity, maxv), LAMBDA target :
         Then(Cascade([power |-> ov.power, claim |-> ov.power_claim[1], target |-> target]),
              LAMBDA st :
         LET missing == Total(st.target) > 0
             fin == IF missing /\ force THEN ForceMissing(st) ELSE st
             ov2 == [ov EXCEPT !.power = fin.power,
                               !.power_claim = Some(fin.claim),
                               !.power_request = Some([target EXCEPT !.dc = 0])]
         IN IF missing /\ ~force
            THEN Outcome(ov2, FALSE, FALSE, None)
            ELSE IF ReservationGate(ov2.power, ov2.battery_reservation, primary, force)
            THEN Outcome(ov2, FALSE, FALSE, None)
            ELSE IF PrimaryGate(ov2.power, primary, force)
            THEN Outcome(ov2, FALSE, FALSE, None)
            ELSE Outcome(ov2, FALSE, TRUE, None)))

\* Mutant of SolarOverhead.rollback: the surplus is not restored.
SolarOverhead_rollback_KeepsPower(ov) ==
    IF ~ov.transaction_running
    THEN Outcome(ov, TRUE, FALSE, None)
    ELSE Outcome([ov EXCEPT !.prior_power = None,
                            !.transaction_running = FALSE,
                            !.power_claim = None], FALSE, TRUE, None)

\* SolarOverhead.rollback
SolarOverhead_rollback(ov) ==
    IF ~ov.transaction_running
    THEN Outcome(ov, TRUE, FALSE, None)
    ELSE Outcome([ov EXCEPT !.power = ov.prior_power[1],
                            !.prior_power = None,
                            !.transaction_running = FALSE,
                            !.power_claim = None], FALSE, TRUE, None)

\* SolarOverhead.comit
SolarOverhead_comit(ov) ==
    IF ~ov.transaction_running
    THEN Outcome(ov, TRUE, FALSE, None)
    ELSE Outcome([ov EXCEPT !.prior_power = None,
                            !.power_claim = None,
                            !.transaction_running = FALSE], FALSE, TRUE, ov.power_claim)

\* ------------------------------------------------------------ ledger specification

\* The inputs of the ledgers the ledger specification starts from: the surplus
\* on L1, L2, L3 and DC in watts (EMS._get_available_overhead clamps the phases
\* to >= 0 and leaves DC signed), the battery reservation and the system type.
SurplusInputs ==
    { <<0, 0, 900, 0>>, <<0, 0, 900, 300>>, <<0, 0, 900, 500>>,
      <<400, 0, 0, -200>>, <<300, 200, 100, 500>> }

ReservationInputs == {0, 350}

SystemTypeInputs == {GridConnected1Phase, GridConnected3PhaseSaldating, GridConnected3PhaseIndividual}

\* The arguments of the claims of the ledger specification.
ClaimMaxInputs == {0, 600}

\* The record of a call: op, whether it raised, what it returned, and for a
\* claim its arguments and the demand its cascade left unsatisfied.
Call(op, r, target, maxv, primary, force, missing) ==
    [op |-> op, raised |-> r.raised, ret |-> r.ret, claim |-> r.claim,
     target |-> target, maxv |-> maxv, primary |-> primary, force |-> force,
     missing |-> missing]

NoCall ==
    [op |-> "init", raised |-> FALSE, ret |-> TRUE, claim |-> None,
     target |-> ZeroPAF, maxv |-> 0, primary |-> FALSE, force |-> FALSE, missing |-> 0]

NoHist ==
    [calls |-> 0, depth |-> 0, given |-> ZeroPAF, begin_power |-> ZeroPAF, tx_ok |-> TRUE,
     tx_claims |-> 0, tx_forced |-> FALSE]

\* The event loop before any timer was added and any call was made: no
\* connection retry timer, no KeepAlive call in flight.
NoSources == [retry |-> None, calls |-> <<>>]

InitLedger ==
    /\ system_type \in SystemTypeInputs
    /\ \E s \in SurplusInputs, res \in ReservationInputs :
           /\ overhead = SolarOverhead(W(s[1]), W(s[2]), W(s[3]), W(s[4]), W(res))
           /\ hist = [NoHist EXCEPT !.given = PhaseAwareFloat(W(s[1]), W(s[2]), W(s[3]), W(s[4]))]
    /\ last = NoCall
    /\ managed_rms = <<>>
    /\ now = 0
    /\ out = <<>>
    /\ mainloop = NoSources

\* A caller calls begin().
LedgerBegin ==
    /\ hist.calls < MaxCalls
    /\ \E r \in {SolarOverhead_begin(overhead)} :
       /\ overhead' = r.ov
       /\ last' = Call("begin", r, ZeroPAF, 0, FALSE, FALSE, 0)
       /\ hist' = IF r.raised
                  THEN [hist EXCEPT !.calls = @ + 1]
                  ELSE [hist EXCEPT !.calls = @ + 1, !.depth = @ + 1,
                                    !.begin_power = overhead.power,
                                    !.tx_ok = TRUE, !.tx_claims = 0, !.tx_forced = FALSE]
    /\ UNCHANGED <<system_type, managed_rms, now, out, mainloop>>

\* A caller calls claim(commodity_quantity, minv, maxv, primary, force).
LedgerClaim ==
    /\ hist.calls < MaxCalls
    /\ \E c \in Commodities, mx \in ClaimMaxInputs, primary \in BOOLEAN, force \in BOOLEAN :
       \E mn \in {mx} :
       \E r \in {SolarOverhead_claim(overhead, c, W(mn), W(mx), primary, force)},
          target \in {ClaimTarget(c, W(mx))} :
       \E missing \in {IF r.raised THEN 0
                        ELSE Total(Cascade([power |-> overhead.power,
                                            claim |-> overhead.power_claim[1],
                                            target |-> target]).target)} :
       /\ overhead' = r.ov
       /\ last' = Call("claim", r, target, W(mx), primary, force, missing)
       /\ hist' = IF r.raised
                  THEN [hist EXCEPT !.calls = @ + 1]
                  ELSE [hist EXCEPT !.calls = @ + 1, !.tx_claims = @ + 1,
                                    !.tx_ok = @ /\ r.ret, !.tx_forced = @ \/ force]
    /\ UNCHANGED <<system_type, managed_rms, now, out, mainloop>>

\* A caller calls rollback().
LedgerRollback ==
    /\ hist.calls < MaxCalls
    /\ \E r \in {SolarOverhead_rollback(overhead)} :
       /\ overhead' = r.ov
       /\ last' = Call("rollback", r, ZeroPAF, 0, FALSE, FALSE, 0)
       /\ hist' = IF r.raised
                  THEN [hist EXCEPT !.calls = @ + 1]
                  ELSE [hist EXCEPT !.calls = @ + 1, !.depth = @ - 1]
    /\ UNCHANGED <<system_type, managed_rms, now, out, mainloop>>

\* A caller calls comit().
LedgerComit ==
    /\ hist.calls < MaxCalls
    /\ \E r \in {SolarOverhead_comit(overhead)} :
       /\ overhead' = r.ov
       /\ last' = Call("comit", r, ZeroPAF, 0, FALSE, FALSE, 0)
       /\ hist' = IF r.raised
                  THEN [hist EXCEPT !.calls = @ + 1]
                  ELSE [hist EXCEPT !.calls = @ + 1, !.depth = @ - 1]
    /\ UNCHANGED <<system_type, managed_rms, now, out, mainloop>>

vars == <<overhead, system_type, last, hist, managed_rms, now, out, mainloop>>

NextLedger == LedgerBegin \/ LedgerClaim \/ LedgerRollback \/ LedgerComit

SpecLedger == InitLedger /\ [][NextLedger]_vars

\* ------------------------------------------------------------ ledger properties

\* The last call was a claim that did not raise.
Claimed == last.op = "claim" /\ ~last.raised

\* Floating-point tolerance of the sums compared below.
Near(a, b) == a - b <= 2 /\ b - a <= 2

\* C1: after rollback() the remaining surplus on L1, L2, L3 and DC is what it
\* was immediately before the begin() of the transaction, whatever claims were
\* made in between, and the transaction is closed.
C1_RollbackRestores ==
    (last.op = "rollback" /\ ~last.raised)
        => /\ overhead.power = hist.begin_power
           /\ ~overhead.transaction_running
           /\ overhead.prior_power = None
           /\ overhead.power_claim = None

\* C1 witness: a rollback after two claims, one forced and one that failed.
C1_Witness ==
    /\ last.op = "rollback" /\ ~last.raised
    /\ hist.tx_claims = 2 /\ hist.tx_forced /\ ~hist.tx_ok

\* C2 (as claimed): the claim comit() returns after successful, unforced claims
\* is at most the total at begin(), and the remaining total is the total at
\* begin() less the claim's total.
C2_CommitConserves ==
    (last.op = "comit" /\ ~last.raised /\ hist.tx_claims >= 1 /\ hist.tx_ok /\ ~hist.tx_forced)
        => /\ Total(last.claim[1]) <= Total(hist.begin_power) + 2
           /\ Near(Total(overhead.power), Total(hist.begin_power) - Total(last.claim[1]))

\* C3: begin() raises exactly when a transaction is open; claim(), comit() and
\* rollback() raise exactly when none is; a call that raises changes nothing
\* of the ledger; and never is more than one transaction open.
C3_Protocol ==
    [][ /\ (last'.op = "begin" => (last'.raised <=> overhead.transaction_running))
        /\ (last'.op \in {"claim", "comit", "rollback"}
               => (last'.raised <=> ~overhead.transaction_running))
        /\ (last'.raised => overhead' = overhead)
        /\ hist'.depth \in {0, 1}
        /\ (hist'.depth = 1 <=> overhead'.transaction_running) ]_vars

\* C3 witness: a begin() that raised inside an open transaction, after a claim.
C3_Witness ==
    /\ last.op = "begin" /\ last.raised
    /\ overhead.transaction_running /\ hist.tx_claims >= 1

\* C4 (as claimed): a claim with max = 0 returns true and changes neither the
\* surplus nor the accumulated claim.
C4_ZeroClaimAlwaysTrue ==
    [][ (last'.op = "claim" /\ ~last'.raised /\ last'.maxv = 0)
            => /\ last'.ret
               /\ overhead'.power = overhead.power
               /\ overhead'.power_claim = overhead.power_claim ]_vars

\* C4 (amended): a claim with max = 0 changes neither the surplus, the
\* accumulated claim, the snapshot nor the transaction flag, and returns true
\* exactly when it passes the gates: forced, or Secondary with the remaining
\* total >= the reservation, or Primary with the remaining total > 50 W.
C4_ZeroClaim ==
    [][ (last'.op = "claim" /\ ~last'.raised /\ last'.maxv = 0)
            => /\ overhead'.power = overhead.power
               /\ overhead'.power_claim = overhead.power_claim
               /\ overhead'.prior_power = overhead.prior_power
               /\ overhead'.transaction_running
               /\ last'.ret <=>
                     \/ last'.force
                     \/ ~last'.primary /\ Total(overhead.power) >= overhead.battery_reservation
                     \/ last'.primary /\ Total(overhead.power) > W(50) ]_vars

\* C4 witness: a zero claim, made after another claim of the transaction,
\* that was rejected.
C4_Witness ==
    /\ Claimed /\ last.maxv = 0 /\ ~last.ret
    /\ hist.tx_claims = 2

\* C5: when the cascade leaves demand unsatisfied, an unforced claim returns
\* false; a forced claim returns true whatever the gates say, and what is
\* missing is taken off the DC surplus and added to the accumulated DC claim.
C5_Shortfall ==
    [][ (last'.op = "claim" /\ ~last'.raised /\ last'.missing > 0)
            => LET st == Cascade([power |-> overhead.power,
                                  claim |-> overhead.power_claim[1],
                                  target |-> last'.target])
               IN /\ Total(st.target) = last'.missing
                  /\ ~last'.force => ~last'.ret
                  /\ last'.force =>
                        /\ last'.ret
                        /\ overhead'.power.dc = st.power.dc - last'.missing
                        /\ overhead'.power_claim[1].dc = st.claim.dc + last'.missing
                        /\ \A n \in {"l1", "l2", "l3"} :
                               /\ overhead'.power[n] = st.power[n]
                               /\ overhead'.power_claim[1][n] = st.claim[n] ]_vars

\* C5 witness: a forced claim with a shortfall that drove DC negative while the
\* remaining total is below the reservation.
C5_Witness ==
    /\ Claimed /\ last.force /\ last.missing > 0 /\ last.ret
    /\ overhead.power.dc < 0
    /\ Total(overhead.power) < overhead.battery_reservation

\* C6: an unforced claim succeeds exactly when the cascade covered the demand
\* and its gate lets it pass: for a Secondary the remaining total is >= the
\* reservation, for a Primary (who ignores the reservation) it is > 50 W.
C6_Gates ==
    (Claimed /\ ~last.force)
        => IF last.primary
           THEN last.ret <=> (last.missing = 0 /\ Total(overhead.power) > W(50))
           ELSE last.ret <=> (last.missing = 0
                                 /\ Total(overhead.power) >= overhead.battery_reservation)

\* C6 witness: a Primary claim that took power and succeeded below the reservation.
C6_Witness ==
    /\ Claimed /\ ~last.force /\ last.primary /\ last.ret /\ last.maxv > 0
    /\ Total(overhead.power) < overhead.battery_reservation

\* The setting of C8: in a 3-phase system that is not saldating, with surplus
\* L1 = 0, L2 = 0, L3 = 900 W, the first claim is the symmetric 600 W.
C8_Setting ==
    /\ system_type = GridConnected3PhaseIndividual
    /\ hist.calls = 2 /\ Claimed
    /\ hist.begin_power.l1 = 0 /\ hist.begin_power.l2 = 0 /\ hist.begin_power.l3 = W(900)
    /\ last.target = PhaseAwareFloat(W(200), W(200), W(200), 0)

\* C8 (as claimed): an unforced Secondary claim with less than
\* (200+200)/0.925^2 = 467.5 W of DC surplus returns false.
C8_NeedsDc ==
    (C8_Setting /\ ~last.primary /\ ~last.force
        /\ hist.begin_power.dc < DivRatio(W(400), EfficiencySquared))
        => ~last.ret

\* C8 (amended): the cascade covers the demand for every DC surplus >= 0: the
\* 400 W of L1 and L2 are taken from DC one to one as far as DC reaches, the
\* rest from L3 at 1/0.925^2, and an unforced claim returns false only by its
\* gate.
C8_CoveredFromDcThenL3 ==
    C8_Setting
        => LET dc == hist.begin_power.dc
               fromDc == Min(dc, W(400))
           IN /\ last.missing = 0
              /\ overhead.power.dc = dc - fromDc
              /\ overhead.power.l1 = 0 /\ overhead.power.l2 = 0
              /\ Near(overhead.power.l3,
                      W(700) - DivRatio(W(400) - fromDc, EfficiencySquared))
              /\ last.ret <=>
                    \/ last.force
                    \/ last.primary /\ Total(overhead.power) > W(50)
                    \/ ~last.primary /\ Total(overhead.power) >= overhead.battery_reservation

\* C8 witness: with no DC surplus at all the unforced Secondary claim succeeds.
C8_Witness ==
    /\ C8_Setting /\ ~last.primary /\ ~last.force /\ last.ret
    /\ hist.begin_power.dc = 0

\* ------------------------------------------------------------ construction

\* The arguments of the ledgers the construction specification builds, in watts.
CtorPhaseInputs == {0, 100, 400}

CtorDcInputs == {-200, 0, 100, 500}

CtorReservationInputs == {0, 50, 300, 700, 2000}

InitCtor ==
    /\ system_type = GridConnected1Phase
    /\ overhead = SolarOverhead(0, 0, 0, 0, 0)
    /\ last = NoCall
    /\ hist = NoHist
    /\ managed_rms = <<>>
    /\ now = 0
    /\ out = <<>>
    /\ mainloop = NoSources

\* EMS._get_available_overhead builds the ledger of a tick.
Construct ==
    /\ \E l1 \in CtorPhaseInputs, l2 \in CtorPhaseInputs, l3 \in CtorPhaseInputs,
          dc \in CtorDcInputs, res \in CtorReservationInputs :
           /\ overhead' = SolarOverhead(W(l1), W(l2), W(l3), W(dc), W(res))
           /\ hist' = [NoHist EXCEPT !.given = PhaseAwareFloat(W(l1), W(l2), W(l3), W(dc))]
    /\ last' = [NoCall EXCEPT !.op = "ctor"]
    /\ UNCHANGED <<system_type, managed_rms, now, out, mainloop>>

NextCtor == Construct

SpecCtor == InitCtor /\ [][NextCtor]_vars

\* What the AC surplus p is worth on the DC side.
AsDc(p) == MulRatio(p, AC_DC_EFFICIENCY)

\* C7 (as claimed): constructing the ledger with a reservation > 0 takes the
\* reserved power off the surplus that later claims can use.
C7_SurplusReduced ==
    (last.op = "ctor" /\ overhead.battery_reservation > 0)
        => overhead.power = PafSub(hist.given, overhead.power_reserved)

\* C7 (amended): the constructor leaves the surplus as given and records in
\* power_reserved how the reservation R would be covered: from DC up to the
\* DC balance, then from L3, L2, L1 in that order, a phase being drawn on only
\* when the ones before it are used up, each phase giving at most its surplus
\* (worth its surplus times AC_DC_EFFICIENCY), together covering R or, when
\* the surplus is too small, everything there is.
C7_ReservationSplit ==
    (last.op = "ctor")
        => LET R == overhead.battery_reservation
               g == hist.given
               r == overhead.power_reserved
           IN /\ overhead.power = g
              /\ R <= 0 => r = ZeroPAF
              /\ R > 0 =>
                    /\ r.dc = Min(R, g.dc)
                    /\ \A n \in {"l1", "l2", "l3"} : r[n] >= 0 /\ r[n] <= g[n] + 1
                    /\ r.l3 > 0 => r.dc = g.dc
                    /\ r.l2 > 0 => r.l3 = g.l3
                    /\ r.l1 > 0 => r.l2 = g.l2 /\ r.l3 = g.l3
                    /\ Near(r.dc + AsDc(r.l3) + AsDc(r.l2) + AsDc(r.l1),
                            Min(R, g.dc + AsDc(g.l3) + AsDc(g.l2) + AsDc(g.l1)))

\* C7 witness: a reservation that uses up DC, L3 and L2 and a part of L1.
C7_Witness ==
    /\ last.op = "ctor"
    /\ overhead.power_reserved.dc > 0
    /\ overhead.power_reserved.l3 = hist.given.l3 /\ hist.given.l3 > 0
    /\ overhead.power_reserved.l2 = hist.given.l2 /\ hist.given.l2 > 0
    /\ overhead.power_reserved.l1 > 0 /\ overhead.power_reserved.l1 < hist.given.l1

\* ------------------------------------------------------------ S2RMDelegate

\* KEEP_ALIVE_INTERVAL and CONNECTION_RETRY_INTERVAL (30 s and 35 s), in the
\* half seconds of the clock.
KEEP_ALIVE_INTERVAL == 60

CONNECTION_RETRY_INTERVAL == 70

\* class ConsumerType
Primary == "Primary"

Secondary == "Secondary"

\* ControlType (the members the delegate distinguishes)
NOT_CONTROLABLE == "NOT_CONTROLABLE"

OPERATION_MODE_BASED_CONTROL == "OPERATION_MODE_BASED_CONTROL"

\* The parts of an OMBC.SystemDescription the delegate reads.  A timer's
\* duration is in half seconds, as the clock.
PowerRange(commodity_quantity, start_of_range, end_of_range) ==
    [commodity_quantity |-> commodity_quantity,
     start_of_range |-> start_of_range, end_of_range |-> end_of_range]

OperationMode(id, power_ranges) == [id |-> id, power_ranges |-> power_ranges]

Transition(from, to, start_timers, blocking_timers) ==
    [from |-> from, to |-> to, start_timers |-> start_timers, blocking_timers |-> blocking_timers]

Timer(id, duration) == [id |-> id, duration |-> duration]

SystemDescription(operation_modes, transitions, timers) ==
    [operation_modes |-> operation_modes, transitions |-> transitions, timers |-> timers]

\* The elements of a list.
Range(seq) == { seq[i] : i \in DOMAIN seq }

\* S2RMDelegate.__init__
S2RMDelegate(priority, consumer_type) ==
    [initialized |-> FALSE,
     is_active_ems_control |-> FALSE,
     priority |-> priority,
     consumer_type |-> consumer_type,
     power_claim |-> Some(ZeroPAF),
     power_request |-> Some(ZeroPAF),
     rm_details |-> None,
     active_control_type |-> None,
     ombc_system_description |-> None,
     ombc_active_operation_mode |-> None,
     ombc_next_operation_mode |-> None,
     ombc_active_instruction |-> None,
     ombc_timers |-> <<>>,
     ombc_timer_starts |-> <<>>,
     keep_alive_missed |-> 0,
     current_power |-> ZeroPAF,
     message_receiver |-> None,
     disconnect_receiver |-> None,
     keep_alive_timer |-> None,
     reply_handler_dict |-> <<>>]

\* sum_key of _s2_on_ombc_system_description: the sum of a mode's end_of_range.
RECURSIVE SumEndOfRange(_, _)
SumEndOfRange(power_ranges, i) ==
    IF i > Len(power_ranges) THEN 0
    ELSE power_ranges[i].end_of_range + SumEndOfRange(power_ranges, i + 1)

sum_key(i) == SumEndOfRange(i.power_ranges, 1)

\* Mutant of InsertDescending: the cheapest mode comes first.
RECURSIVE InsertAscending(_, _)
InsertAscending(sorted, m) ==
    IF sorted = <<>> THEN <<m>>
    ELSE IF sum_key(Head(sorted)) <= sum_key(m)
         THEN <<Head(sorted)>> \o InsertAscending(Tail(sorted), m)
         ELSE <<m>> \o sorted

\* list.sort(key=sum_key, reverse=True) is stable: m goes behind every mode
\* of the sorted list whose key is greater than or equal to its own.
RECURSIVE InsertDescending(_, _)
InsertDescending(sorted, m) ==
    IF sorted = <<>> THEN <<m>>
    ELSE IF sum_key(Head(sorted)) >= sum_key(m)
         THEN <<Head(sorted)>> \o InsertDescending(Tail(sorted), m)
         ELSE <<m>> \o sorted

RECURSIVE SortOperationModes(_)
SortOperationModes(operation_modes) ==
    IF operation_modes = <<>> THEN <<>>
    ELSE Then(SortOperationModes(SubSeq(operation_modes, 1, Len(operation_modes) - 1)),
              LAMBDA sorted : InsertDescending(sorted, operation_modes[Len(operation_modes)]))

\* Mutant of _ombc_can_transition: a mode two transitions away is accepted too.
ombc_can_transition_TwoHops(rm, active_operation_mode, candidate) ==
    \/ active_operation_mode.id = candidate.id
    \/ \E t \in Range(rm.ombc_system_description[1].transitions) :
           /\ t.from = active_operation_mode.id
           /\ \/ t.to = candidate.id
              \/ \E u \in Range(rm.ombc_system_description[1].transitions) :
                     u.from = t.to /\ u.to = candidate.id

\* S2RMDelegate._ombc_can_transition
ombc_can_transition(rm, active_operation_mode, candidate) ==
    \/ active_operation_mode.id = candidate.id
    \/ \E t \in Range(rm.ombc_system_description[1].transitions) :
           t.from = active_operation_mode.id /\ t.to = candidate.id

\* round(x, 0) of Python for x = h half seconds: halves go to the even second.
RoundSeconds(h) ==
    IF h % 2 = 0 THEN h \div 2
    ELSE IF (h \div 2) % 2 = 0 THEN h \div 2 ELSE (h \div 2) + 1

\* Mutant of BlockingTimers: the blocking timers of every transition, whatever
\* its ends are.
RECURSIVE BlockingTimers_AnyTransition(_, _, _, _)
BlockingTimers_AnyTransition(transitions, i, from, to) ==
    IF i > Len(transitions) THEN <<>>
    ELSE transitions[i].blocking_timers
         \o BlockingTimers_AnyTransition(transitions, i + 1, from, to)

\* The blocking timers of the transitions from -> to, in the order the loops
\* of _ombc_check_timer_block visit them.
RECURSIVE BlockingTimers(_, _, _, _)
BlockingTimers(transitions, i, from, to) ==
    IF i > Len(transitions) THEN <<>>
    ELSE (IF transitions[i].from = from /\ transitions[i].to = to
          THEN transitions[i].blocking_timers ELSE <<>>)
         \o BlockingTimers(transitions, i + 1, from, to)

\* A dict without the key k (<<>> is the empty dict).
Without(d, k) == IF DOMAIN d \ {k} = {} THEN <<>> ELSE [x \in DOMAIN d \ {k} |-> d[x]]

\* "for id in timer_to_invalidate: del ...": a second del of an id raises.
RECURSIVE InvalidateTimers(_, _, _)
InvalidateTimers(rm, timer_to_invalidate, i) ==
    IF i > Len(timer_to_invalidate) THEN [rm |-> rm, seconds |-> 0, raised |-> FALSE]
    ELSE IF timer_to_invalidate[i] \notin DOMAIN rm.ombc_timers
    THEN [rm |-> rm, seconds |-> 0, raised |-> TRUE]
    ELSE InvalidateTimers([rm EXCEPT !.ombc_timers = Without(@, timer_to_invalidate[i]),
                                     !.ombc_timer_starts = Without(@, timer_to_invalidate[i])],
                          timer_to_invalidate, i + 1)

\* The loops of _ombc_check_timer_block over the blocking timers ids: the
\* first running timer that has not expired ends the search.
RECURSIVE ScanBlockingTimers(_, _, _, _, _)
ScanBlockingTimers(rm, ids, i, t, timer_to_invalidate) ==
    IF i > Len(ids) THEN InvalidateTimers(rm, timer_to_invalidate, 1)
    ELSE IF ids[i] \in DOMAIN rm.ombc_timers
    THEN IF rm.ombc_timer_starts[ids[i]] + rm.ombc_timers[ids[i]].duration < t
         THEN ScanBlockingTimers(rm, ids, i + 1, t, Append(timer_to_invalidate, ids[i]))
         ELSE [rm |-> rm,
               seconds |-> RoundSeconds(rm.ombc_timer_starts[ids[i]]
                                        + rm.ombc_timers[ids[i]].duration - t),
               raised |-> FALSE]
    ELSE ScanBlockingTimers(rm, ids, i + 1, t, timer_to_invalidate)

\* S2RMDelegate._ombc_check_timer_block at the time t: the session after it,
\* the seconds it returned, and whether it raised.
ombc_check_timer_block(rm, t) ==
    IF rm.ombc_active_operation_mode = None \/ rm.ombc_next_operation_mode = None
    THEN [rm |-> rm, seconds |-> 0, raised |-> FALSE]
    ELSE ScanBlockingTimers(rm,
             BlockingTimers(rm.ombc_system_description[1].transitions, 1,
                            rm.ombc_active_operation_mode[1].id,
                            rm.ombc_next_operation_mode[1].id),
             1, t, <<>>)

\* What a method of the delegate that works on the ledger gives: the session
\* and the ledger after it, and whether an exception left it.
Result(rm, ov, raised) == [rm |-> rm, ov |-> ov, raised |-> raised]

\* The eligible modes: the modes of the (sorted) description the active mode
\* can transition to, in the order of the description.
EligibleOperationModes(rm) ==
    SelectSeq(rm.ombc_system_description[1].operation_modes,
              LAMBDA opm : ombc_can_transition(rm, rm.ombc_active_operation_mode[1], opm))

\* Mutant of ForcedState: the first eligible mode is the forced one.
ForcedState_First(eligible_operation_modes) == eligible_operation_modes[1]

\* forced_state: the last resort of _ombc_self_assign_overhead.
ForcedState(eligible_operation_modes) ==
    eligible_operation_modes[Len(eligible_operation_modes)]

\* Mutant of ClaimPowerRanges: no claim is forced.
RECURSIVE ClaimPowerRanges_Unforced(_, _, _, _, _)
ClaimPowerRanges_Unforced(ov, power_ranges, i, primary, force) ==
    IF i > Len(power_ranges) THEN ov
    ELSE Then(SolarOverhead_claim(ov, power_ranges[i].commodity_quantity,
                                  power_ranges[i].start_of_range,
                                  power_ranges[i].end_of_range, primary, FALSE),
              LAMBDA r : IF r.ret
                         THEN ClaimPowerRanges_Unforced(r.ov, power_ranges, i + 1, primary, force)
                         ELSE SolarOverhead_rollback(r.ov).ov)

\* "for pr in opm.power_ranges": the claims of one mode inside the open
\* transaction of ov; a failed claim rolls back and ends the loop.
RECURSIVE ClaimPowerRanges(_, _, _, _, _)
ClaimPowerRanges(ov, power_ranges, i, primary, force) ==
    IF i > Len(power_ranges) THEN ov
    ELSE Then(SolarOverhead_claim(ov, power_ranges[i].commodity_quantity,
                                  power_ranges[i].start_of_range,
                                  power_ranges[i].end_of_range, primary, force),
              LAMBDA r : IF r.ret
                         THEN ClaimPowerRanges(r.ov, power_ranges, i + 1, primary, force)
                         ELSE SolarOverhead_rollback(r.ov).ov)

\* The body of "if overhead.transaction_running" in _ombc_self_assign_overhead:
\* the mode opm is taken, ov still holds the open transaction of its claims.
OmbcSelect(rm, ov, opm, t) ==
    Then(SolarOverhead_comit(ov), LAMBDA c :
    Then(ombc_check_timer_block([rm EXCEPT !.ombc_next_operation_mode = Some(opm)], t),
         LAMBDA tb :
         LET old_power_claim == rm.power_claim
             new_power_claim == c.claim[1]
         IN IF tb.raised THEN Result(tb.rm, c.ov, TRUE)
            ELSE IF tb.seconds > 0
            THEN IF old_power_claim # None /\ Total(old_power_claim[1]) > Total(new_power_claim)
                 THEN Result([tb.rm EXCEPT !.power_claim = old_power_claim],
                             [c.ov EXCEPT !.power = PafSub(PafAdd(@, new_power_claim),
                                                           old_power_claim[1])],
                             FALSE)
                 ELSE Result(tb.rm, c.ov, FALSE)
            ELSE Result([tb.rm EXCEPT !.power_claim = Some(new_power_claim),
                                      !.power_request = c.ov.power_request,
                                      !.is_active_ems_control = Total(c.ov.power_request[1]) > 0],
                        c.ov, FALSE)))

\* The power ranges before the first one whose commodity claim() raises on.
RECURSIVE ClaimablePrefix(_, _)
ClaimablePrefix(power_ranges, i) ==
    IF i > Len(power_ranges) THEN power_ranges
    ELSE IF KnownCommodity(power_ranges[i].commodity_quantity)
    THEN ClaimablePrefix(power_ranges, i + 1)
    ELSE SubSeq(power_ranges, 1, i - 1)

\* "for opm in eligible_operation_modes" of _ombc_self_assign_overhead.  When
\* the claims of a mode reach a power range claim() raises on, the exception
\* leaves with the transaction open.
RECURSIVE OmbcProbe(_, _, _, _, _)
OmbcProbe(rm, ov, eligible_operation_modes, i, t) ==
    IF i > Len(eligible_operation_modes) THEN Result(rm, ov, FALSE)
    ELSE Then(SolarOverhead_begin(ov), LAMBDA b :
         IF b.raised THEN Result(rm, ov, TRUE)
         ELSE Then(ClaimablePrefix(eligible_operation_modes[i].power_ranges, 1),
                   LAMBDA claimable :
              Then(ClaimPowerRanges(b.ov, claimable, 1,
                                    rm.consumer_type = Primary,
                                    eligible_operation_modes[i].id
                                        = ForcedState(eligible_operation_modes).id),
                   LAMBDA ov1 :
                   IF ov1.transaction_running
                   THEN IF claimable # eligible_operation_modes[i].power_ranges
                        THEN Result(rm, ov1, TRUE)
                        ELSE OmbcSelect(rm, ov1, eligible_operation_modes[i], t)
                   ELSE OmbcProbe(rm, ov1, eligible_operation_modes, i + 1, t))))

\* S2RMDelegate._ombc_self_assign_overhead
ombc_self_assign_overhead(rm, ov, t) ==
    IF rm.ombc_system_description = None THEN Result(rm, ov, FALSE)
    ELSE IF rm.ombc_active_operation_mode = None THEN Result(rm, ov, FALSE)
    ELSE Then(EligibleOperationModes(rm), LAMBDA eligible_operation_modes :
              IF Len(eligible_operation_modes) = 0 THEN Result(rm, ov, FALSE)
              ELSE OmbcProbe(rm, ov, eligible_operation_modes, 1, t))

\* Mutant of self_assign_overhead: the except clause does not roll back.
self_assign_overhead_NoRollback(rm, ov, t) ==
    IF rm.active_control_type = Some(OPERATION_MODE_BASED_CONTROL)
    THEN Then(ombc_self_assign_overhead([rm EXCEPT !.power_claim = None], ov, t), LAMBDA r :
              Result(r.rm, r.ov, FALSE))
    ELSE Result([rm EXCEPT !.power_claim = None], ov, FALSE)

\* S2RMDelegate.self_assign_overhead: an exception of the assignment is
\* caught and answered with overhead.rollback(), which raises itself when no
\* transaction is open.
self_assign_overhead(rm, ov, t) ==
    IF rm.active_control_type = Some(OPERATION_MODE_BASED_CONTROL)
    THEN Then(ombc_self_assign_overhead([rm EXCEPT !.power_claim = None], ov, t), LAMBDA r :
              IF r.raised
              THEN Then(SolarOverhead_rollback(r.ov), LAMBDA rb : Result(r.rm, rb.ov, rb.raised))
              ELSE r)
    ELSE Result([rm EXCEPT !.power_claim = None], ov, FALSE)

\* The OMBC.Instruction comit() sends (without its ids and execution time).
OMBCInstruction(operation_mode_id) ==
    [message_type |-> "OMBC.Instruction", operation_mode_id |-> operation_mode_id,
     operation_mode_factor |-> 1, abnormal_condition |-> FALSE]

\* The timers the transition from -> to starts: the start_timers of the
\* matching transitions that the description defines.
\* Mutant of StartedTimers: the start timers of every transition that leaves
\* the active mode.
StartedTimers_AnyTarget(system_description, from, to) ==
    { tmr \in UNION { Range(tr.start_timers) :
                        tr \in { x \in Range(system_description.transitions) :
                                    x.from = from } } :
        \E tmr_cand \in Range(system_description.timers) : tmr_cand.id = tmr }

StartedTimers(system_description, from, to) ==
    { tmr \in UNION { Range(tr.start_timers) :
                        tr \in { x \in Range(system_description.transitions) :
                                    x.from = from /\ x.to = to } } :
        \E tmr_cand \in Range(system_description.timers) : tmr_cand.id = tmr }

\* The first timer of the description with the id tmr.
TimerCandidate(system_description, tmr) ==
    system_description.timers[
        CHOOSE i \in DOMAIN system_description.timers :
            /\ system_description.timers[i].id = tmr
            /\ \A j \in 1..(i - 1) : system_description.timers[j].id # tmr ]

\* The body of "if self.active_control_type == OPERATION_MODE_BASED_CONTROL"
\* of S2RMDelegate.comit at the time t: the session after it, the messages it
\* sent and whether it raised.
OmbcComit(rm, t) ==
    IF /\ rm.ombc_next_operation_mode # None
       /\ rm.ombc_active_operation_mode # rm.ombc_next_operation_mode
    THEN Then(ombc_check_timer_block(rm, t), LAMBDA tb :
         IF tb.raised THEN [rm |-> tb.rm, out |-> <<>>, raised |-> TRUE]
         ELSE IF tb.seconds <= 0
         THEN LET r == tb.rm
                  next == r.ombc_next_operation_mode[1]
                  instruction == OMBCInstruction(next.id)
                  started == IF r.ombc_active_operation_mode = None THEN {}
                             ELSE StartedTimers(r.ombc_system_description[1],
                                                r.ombc_active_operation_mode[1].id, next.id)
              IN [rm |-> [r EXCEPT
                      !.ombc_active_instruction = Some(instruction),
                      !.ombc_timers =
                          IF started = {} THEN @
                          ELSE [id \in DOMAIN r.ombc_timers \cup started |->
                                   IF id \in started
                                   THEN TimerCandidate(r.ombc_system_description[1], id)
                                   ELSE r.ombc_timers[id]],
                      !.ombc_timer_starts =
                          IF started = {} THEN @
                          ELSE [id \in DOMAIN r.ombc_timer_starts \cup started |->
                                   IF id \in started THEN t ELSE r.ombc_timer_starts[id]],
                      !.ombc_active_operation_mode = r.ombc_next_operation_mode,
                      !.ombc_next_operation_mode = None],
                  out |-> <<instruction>>, raised |-> FALSE]
         ELSE [rm |-> tb.rm, out |-> <<>>, raised |-> FALSE])
    ELSE [rm |-> rm, out |-> <<>>, raised |-> FALSE]

\* Mutant of S2RMDelegate_comit: whatever the control type is.
S2RMDelegate_comit_AnyControlType(rm, t) == OmbcComit(rm, t)

\* S2RMDelegate.comit at the time t.
S2RMDelegate_comit(rm, t) ==
    IF rm.active_control_type = Some(OPERATION_MODE_BASED_CONTROL)
    THEN OmbcComit(rm, t)
    ELSE [rm |-> rm, out |-> <<>>, raised |-> FALSE]

\* S2RMDelegate._s2_on_ombc_system_description: the session after it.
s2_on_ombc_system_description(rm, message) ==
    [rm EXCEPT !.ombc_system_description =
                   Some([message EXCEPT !.operation_modes = SortOperationModes(@)])]

\* The ReceptionStatus the delegate answers a message with.
ReceptionStatus(status) == [message_type |-> "ReceptionStatus", status |-> status]

\* The modes of the description with the id a status reports, in order.
ReportedModes(rm, active_operation_mode_id) ==
    SelectSeq(rm.ombc_system_description[1].operation_modes,
              LAMBDA opm : opm.id = active_operation_mode_id)

\* S2RMDelegate._s2_on_ombc_status: the session after it and the messages sent.
s2_on_ombc_status(rm, active_operation_mode_id) ==
    Then(ReportedModes(rm, active_operation_mode_id), LAMBDA found :
         IF found # <<>>
         THEN [rm |-> [rm EXCEPT !.ombc_active_operation_mode = Some(found[1]),
                                 !.is_active_ems_control =
                                     IF found[1].power_ranges[1].end_of_range > 0 THEN TRUE ELSE @],
               out |-> <<ReceptionStatus("OK")>>]
         ELSE [rm |-> rm, out |-> <<ReceptionStatus("TEMPORARY_ERROR")>>])

\* _s2_send_reception_message: the ReceptionStatus for the message with the
\* id src.
s2_send_reception_message(rsv, src) ==
    [message_type |-> "ReceptionStatus", status |-> rsv, subject_message_id |-> src]

\* What a message handler gives: the session after it, the messages it sent
\* and whether an exception left it.
Handled(rm, sent, raised) == [rm |-> rm, out |-> sent, raised |-> raised]

\* S2RMDelegate.end
S2RMDelegate_end(rm) ==
    [rm EXCEPT !.message_receiver = None, !.disconnect_receiver = None,
               !.keep_alive_timer = None,
               !.initialized = FALSE, !.is_active_ems_control = FALSE]

\* S2RMDelegate.begin at the time t, with the outcome connect of the blocking
\* call of Connect: it returns true or false, or it raises.  _s2_connect
\* registers the receivers before the call.
S2RMDelegate_begin(rm, connect, t) ==
    LET registered == [rm EXCEPT !.message_receiver = Some("Message"),
                                 !.disconnect_receiver = Some("Disconnect")]
    IN IF connect = "raises" THEN [rm |-> registered, raised |-> TRUE]
       ELSE IF connect = "true"
       THEN [rm |-> [registered EXCEPT !.keep_alive_timer = Some(t + KEEP_ALIVE_INTERVAL),
                                       !.initialized = TRUE],
             raised |-> FALSE]
       ELSE [rm |-> S2RMDelegate_end(registered), raised |-> FALSE]

\* _s2_send_message(SelectControlType(message_id = fresh, control_type), handler)
SelectControlType(fresh, control_type) ==
    [message_type |-> "SelectControlType", message_id |-> fresh, control_type |-> control_type]

\* The dict d with d[k] = v.
With(d, k, v) == [x \in DOMAIN d \cup {k} |-> IF x = k THEN v ELSE d[x]]

\* S2RMDelegate._s2_on_rm_details.  fresh is the uuid4() of the
\* SelectControlType; a reply handler is kept as the control type it sets.
\* The last branch passes a text where the message is expected, which becomes
\* the subject_message_id of a ReceptionStatus: the s2python library accepts
\* it (accepts) or raises.
s2_on_rm_details(rm, message, fresh, accepts) ==
    LET r == [rm EXCEPT !.rm_details = Some(message)]
        types == message.available_control_types
        ok == s2_send_reception_message("OK", message.message_id)
    IN IF Len(types) = 0
       THEN Handled(r, <<s2_send_reception_message("TEMPORARY_ERROR", message.message_id)>>,
                    FALSE)
       ELSE IF Len(types) = 1 /\ NOT_CONTROLABLE \in Range(types)
       THEN Handled([r EXCEPT !.reply_handler_dict = With(@, fresh, NOT_CONTROLABLE)],
                    <<ok, SelectControlType(fresh, NOT_CONTROLABLE)>>, FALSE)
       ELSE IF OPERATION_MODE_BASED_CONTROL \in Range(types)
       THEN Handled([r EXCEPT !.reply_handler_dict =
                                  With(@, fresh, OPERATION_MODE_BASED_CONTROL)],
                    <<ok, SelectControlType(fresh, OPERATION_MODE_BASED_CONTROL)>>, FALSE)
       ELSE IF accepts
       THEN Handled(r, <<ok, s2_send_reception_message("PERMANENT_ERROR",
                                 "No supported ControlType offered.")>>, FALSE)
       ELSE Handled(r, <<ok>>, TRUE)

\* S2RMDelegate._s2_on_handhsake_message
s2_on_handhsake_message(rm, message) ==
    IF message.supports_s2_version
    THEN Handled(rm, <<s2_send_reception_message("OK", message.message_id),
                       [message_type |-> "HandshakeResponse"]>>, FALSE)
    ELSE Handled(rm, <<s2_send_reception_message("INVALID_CONTENT", message.message_id)>>,
                 FALSE)

\* increase_counter of _s2_on_power_measurement, as far as current_power goes
\* (the energy counters and their timestamps are not part of this model).
RECURSIVE IncreaseCounters(_, _, _)
IncreaseCounters(current_power, values, i) ==
    IF i > Len(values) THEN current_power
    ELSE IncreaseCounters(
             IF values[i].commodity_quantity = ELECTRIC_POWER_3_PHASE_SYMMETRIC
             THEN [current_power EXCEPT !.l1 = RoundDiv(values[i].value, 3),
                                        !.l2 = RoundDiv(values[i].value, 3),
                                        !.l3 = RoundDiv(values[i].value, 3)]
             ELSE IF values[i].commodity_quantity = ELECTRIC_POWER_L1
             THEN [current_power EXCEPT !.l1 = values[i].value]
             ELSE IF values[i].commodity_quantity = ELECTRIC_POWER_L2
             THEN [current_power EXCEPT !.l2 = values[i].value]
             ELSE [current_power EXCEPT !.l3 = values[i].value],
             values, i + 1)

\* S2RMDelegate._s2_on_power_measurement
s2_on_power_measurement(rm, message) ==
    Handled([rm EXCEPT !.current_power =
                           IF rm.is_active_ems_control
                           THEN IncreaseCounters(@, message.values, 1)
                           ELSE [@ EXCEPT !.l1 = 0, !.l2 = 0, !.l3 = 0, !.dc = 0]],
            <<s2_send_reception_message("OK", message.message_id)>>, FALSE)

\* The branch "ReceptionStatus" of _s2_on_message_handler: the reply handler
\* of the subject, if there is one, is called and removed.
s2_on_reception_status(rm, p) ==
    IF p.subject_message_id \in DOMAIN rm.reply_handler_dict
    THEN Handled([rm EXCEPT !.active_control_type =
                                IF p.status = "OK"
                                THEN Some(rm.reply_handler_dict[p.subject_message_id])
                                ELSE @,
                            !.reply_handler_dict = Without(@, p.subject_message_id)],
                 <<>>, FALSE)
    ELSE Handled(rm, <<>>, FALSE)

\* Mutant of InitializedGate: every message is admitted.
InitializedGate_Open(rm, message_type) == TRUE

\* "if jmsg["message_type"] == "Handshake" or self.initialized"
InitializedGate(rm, message_type) == message_type = "Handshake" \/ rm.initialized

\* The messages _s2_on_ombc_system_description and _s2_on_ombc_status answer
\* with are made by _s2_send_reception_message(status, message).
AnswerStatus(answers, message) ==
    [i \in DOMAIN answers |-> s2_send_reception_message(answers[i].status, message.message_id)]

\* S2RMDelegate._s2_on_message_handler for a message of this client that
\* parses and has a message_type.  A ReceptionStatus has no message_id: the
\* last branch raises a KeyError on jmsg["message_id"] for it.
s2_on_message_handler(rm, message, fresh, accepts) ==
    IF InitializedGate(rm, message.message_type)
    THEN IF message.message_type = "Handshake"
         THEN s2_on_handhsake_message(rm, message)
         ELSE IF message.message_type = "ResourceManagerDetails"
         THEN s2_on_rm_details(rm, message, fresh, accepts)
         ELSE IF message.message_type = "OMBC.SystemDescription"
         THEN Handled(s2_on_ombc_system_description(rm, message.description),
                      AnswerStatus(<<ReceptionStatus("OK")>>, message), FALSE)
         ELSE IF message.message_type = "OMBC.Status"
         THEN IF rm.ombc_system_description = None
              THEN Handled(rm, <<>>, TRUE)
              ELSE Then(s2_on_ombc_status(rm, message.active_operation_mode_id), LAMBDA r :
                        Handled(r.rm, AnswerStatus(r.out, message), FALSE))
         ELSE IF message.message_type = "PowerMeasurement"
         THEN s2_on_power_measurement(rm, message)
         ELSE IF message.message_type = "ReceptionStatus"
         THEN s2_on_reception_status(rm, message)
         ELSE Handled(rm, <<s2_send_reception_message("PERMANENT_ERROR", message.message_id)>>,
                      FALSE)
    ELSE IF message.message_type = "ReceptionStatus"
    THEN Handled(rm, <<>>, TRUE)
    ELSE Handled(rm, <<s2_send_reception_message("TEMPORARY_ERROR", message.message_id)>>,
                 FALSE)

\* S2RMDelegate._s2_on_disconnect_handler for a Disconnect of this client: the
\* reason is logged.
s2_on_disconnect_handler(rm) == rm

\* EMS.device_removed for the service of all the sessions rms: each is ended
\* and deleted from managed_rms.
device_removed(rms) ==
    [ended |-> [i \in DOMAIN rms |-> S2RMDelegate_end(rms[i])], rms |-> <<>>]

\* reply_handler and error_handler of _keep_alive_loop: the reply of the
\* KeepAlive call is true or false, or the call fails ("error").
keep_alive_reply(rm, result) ==
    [rm EXCEPT !.keep_alive_missed = IF result = "true" THEN 0 ELSE @ + 1]

\* Mutant of keep_alive_loop: a third failure is waited for.
keep_alive_loop_ThreeStrikes(rm, t) ==
    IF rm.keep_alive_missed < 3
    THEN [rm |-> [rm EXCEPT !.keep_alive_timer = Some(t + KEEP_ALIVE_INTERVAL)], ret |-> TRUE]
    ELSE [rm |-> S2RMDelegate_end(rm), ret |-> FALSE]

\* S2RMDelegate._keep_alive_loop at the time t, after it has sent the
\* KeepAlive call: the session and what it returns to the event loop (TRUE
\* keeps the timer, which is due again one interval later).
keep_alive_loop(rm, t) ==
    IF rm.keep_alive_missed < 2
    THEN [rm |-> [rm EXCEPT !.keep_alive_timer = Some(t + KEEP_ALIVE_INTERVAL)], ret |-> TRUE]
    ELSE [rm |-> S2RMDelegate_end(rm), ret |-> FALSE]

\* EMS._on_timer_retry_connection at the time t for one session, with the
\* outcome connect of its Connect call.
on_timer_retry_connection(rm, connect, t) ==
    IF ~rm.initialized
    THEN S2RMDelegate_begin(rm, connect, t)
    ELSE [rm |-> rm, raised |-> FALSE]

\* Mutant of InsertByPriority: a session goes before the sessions of its own
\* priority.
RECURSIVE InsertByPriority_Unstable(_, _, _)
InsertByPriority_Unstable(rms, order, i) ==
    IF order = <<>> THEN <<i>>
    ELSE IF rms[Head(order)].priority < rms[i].priority
         THEN <<Head(order)>> \o InsertByPriority_Unstable(rms, Tail(order), i)
         ELSE <<i>> \o order

\* sorted(self.managed_rms.items(), key=priority): the indices of the sessions
\* by priority, sessions of one priority in insertion order.
RECURSIVE InsertByPriority(_, _, _)
InsertByPriority(rms, order, i) ==
    IF order = <<>> THEN <<i>>
    ELSE IF rms[Head(order)].priority <= rms[i].priority
         THEN <<Head(order)>> \o InsertByPriority(rms, Tail(order), i)
         ELSE <<i>> \o order

RECURSIVE SortedByPriority(_, _)
SortedByPriority(rms, n) ==
    IF n = 0 THEN <<>>
    ELSE Then(SortedByPriority(rms, n - 1), LAMBDA order : InsertByPriority(rms, order, n))

\* An entry of the log of a tick: the call op on the session delegate, the
\* power claim the session held before it, the session before it (kept for
\* comit), the ledger it was given and the one it left (self_assign_overhead),
\* the session after it, the messages it sent (comit) and whether it raised.
Event(op, delegate, before, given, after, left, sent, raised) ==
    [op |-> op, delegate |-> delegate, prior |-> before.power_claim,
     before |-> IF op = "comit" THEN Some(before) ELSE None, given |-> given,
     after |-> after, left |-> left, out |-> sent, raised |-> raised]

\* The first loop of EMS._on_timer: every controllable session assigns itself
\* power from the ledger, by priority.
RECURSIVE AssignAll(_, _, _, _, _, _)
AssignAll(rms, ov, order, k, t, log) ==
    IF k > Len(order) THEN [rms |-> rms, ov |-> ov, raised |-> FALSE, log |-> log]
    ELSE IF /\ rms[order[k]].initialized
            /\ rms[order[k]].rm_details # None
            /\ rms[order[k]].active_control_type # None
            /\ rms[order[k]].active_control_type # Some(NOT_CONTROLABLE)
    THEN Then(self_assign_overhead(rms[order[k]], ov, t), LAMBDA r :
         Then(Append(log, Event("self_assign", order[k], rms[order[k]], ov,
                                r.rm, r.ov, <<>>, r.raised)),
              LAMBDA log1 :
              IF r.raised
              THEN [rms |-> [rms EXCEPT ![order[k]] = r.rm], ov |-> r.ov,
                    raised |-> TRUE, log |-> log1]
              ELSE AssignAll([rms EXCEPT ![order[k]] = r.rm], r.ov, order, k + 1, t, log1)))
    ELSE AssignAll(rms, ov, order, k + 1, t, log)

\* The second loop of EMS._on_timer: comit() of every initialized session, in
\* the order of the session map.
RECURSIVE ComitAll(_, _, _, _, _)
ComitAll(rms, i, t, sent, log) ==
    IF i > Len(rms) THEN [rms |-> rms, out |-> sent, raised |-> FALSE, log |-> log]
    ELSE IF rms[i].initialized
    THEN Then(S2RMDelegate_comit(rms[i], t), LAMBDA c :
         Then(Append(log, Event("comit", i, rms[i], SolarOverhead(0, 0, 0, 0, 0),
                                c.rm, SolarOverhead(0, 0, 0, 0, 0), c.out, c.raised)),
              LAMBDA log1 :
              IF c.raised
              THEN [rms |-> [rms EXCEPT ![i] = c.rm], out |-> sent \o c.out,
                    raised |-> TRUE, log |-> log1]
              ELSE ComitAll([rms EXCEPT ![i] = c.rm], i + 1, t, sent \o c.out, log1)))
    ELSE ComitAll(rms, i + 1, t, sent, log)

\* Mutant of ControlLoop: one loop, in which a session comits right after it
\* assigned itself power.
RECURSIVE AssignAndComit(_, _, _, _, _, _, _)
AssignAndComit(rms, ov, order, k, t, sent, log) ==
    IF k > Len(order)
    THEN [rms |-> rms, ov |-> ov, out |-> sent, log |-> log, raised |-> FALSE]
    ELSE Then(AssignAll(rms, ov, <<order[k]>>, 1, t, log), LAMBDA a :
         IF a.raised
         THEN [rms |-> a.rms, ov |-> a.ov, out |-> sent, log |-> a.log, raised |-> TRUE]
         ELSE IF a.rms[order[k]].initialized
         THEN Then(S2RMDelegate_comit(a.rms[order[k]], t), LAMBDA c :
              Then(Append(a.log, Event("comit", order[k], a.rms[order[k]],
                                       SolarOverhead(0, 0, 0, 0, 0), c.rm,
                                       SolarOverhead(0, 0, 0, 0, 0), c.out, c.raised)),
                   LAMBDA log1 :
                   IF c.raised
                   THEN [rms |-> [a.rms EXCEPT ![order[k]] = c.rm], ov |-> a.ov,
                         out |-> sent \o c.out, log |-> log1, raised |-> TRUE]
                   ELSE AssignAndComit([a.rms EXCEPT ![order[k]] = c.rm], a.ov, order,
                                       k + 1, t, sent \o c.out, log1)))
         ELSE AssignAndComit(a.rms, a.ov, order, k + 1, t, sent, a.log))

ControlLoop_ComitEarly(rms, ov, t) ==
    AssignAndComit(rms, ov, SortedByPriority(rms, Len(rms)), 1, t, <<>>, <<>>)

\* The two loops of EMS._on_timer at the time t on the ledger ov: the
\* sessions and the ledger after them, the messages sent, the log of the
\* calls and whether an exception ended the tick.
ControlLoop(rms, ov, t) ==
    Then(AssignAll(rms, ov, SortedByPriority(rms, Len(rms)), 1, t, <<>>), LAMBDA a :
         IF a.raised
         THEN [rms |-> a.rms, ov |-> a.ov, out |-> <<>>, log |-> a.log, raised |-> TRUE]
         ELSE Then(ComitAll(a.rms, 1, t, <<>>, a.log), LAMBDA c :
                   [rms |-> c.rms, ov |-> a.ov, out |-> c.out, log |-> c.log,
                    raised |-> c.raised]))

\* ------------------------------------------------------------ OMBC specification

\* The last half second of the clock.
MaxTime == 3

\* The system descriptions a resource manager sends, modes in message order.
\* A switch: off and on without timers.
DescSwitch ==
    SystemDescription(
        << OperationMode("off", <<PowerRange(ELECTRIC_POWER_L1, 0, 0)>>),
           OperationMode("on", <<PowerRange(ELECTRIC_POWER_L1, W(1400), W(1400))>>) >>,
        << Transition("off", "on", <<>>, <<>>), Transition("on", "off", <<>>, <<>>) >>,
        <<>>)

\* A heater: off -> low starts the timer T1 that blocks low -> off; high is
\* two transitions away from off.
DescHeater ==
    SystemDescription(
        << OperationMode("low", <<PowerRange(ELECTRIC_POWER_L1, 0, W(600))>>),
           OperationMode("off", <<PowerRange(ELECTRIC_POWER_L1, 0, 0)>>),
           OperationMode("high", <<PowerRange(ELECTRIC_POWER_3_PHASE_SYMMETRIC, 0, W(900))>>) >>,
        << Transition("off", "low", <<"T1">>, <<>>), Transition("low", "off", <<>>, <<"T1">>),
           Transition("low", "high", <<>>, <<>>), Transition("high", "low", <<>>, <<>>),
           Transition("high", "off", <<>>, <<>>) >>,
        << Timer("T1", 2) >>)

\* Two modes of the same power, one with two power ranges; off cannot be
\* reached from eco.
DescDual ==
    SystemDescription(
        << OperationMode("boost", <<PowerRange(ELECTRIC_POWER_L3, 0, W(800))>>),
           OperationMode("eco", <<PowerRange(ELECTRIC_POWER_L1, 0, W(400)),
                                  PowerRange(ELECTRIC_POWER_L2, 0, W(400))>>),
           OperationMode("off", <<PowerRange(ELECTRIC_POWER_L1, 0, 0)>>) >>,
        << Transition("off", "eco", <<"T2">>, <<>>), Transition("eco", "boost", <<>>, <<"T2">>),
           Transition("boost", "eco", <<>>, <<>>), Transition("boost", "off", <<>>, <<>>) >>,
        << Timer("T2", 2) >>)

SystemDescriptionInputs == {DescSwitch, DescHeater, DescDual}

\* The mode ids a status reports: those of the description and an unknown one.
StatusInputs(rm) ==
    { opm.id : opm \in Range(rm.ombc_system_description[1].operation_modes) } \cup {"unknown"}

\* The surplus (L1, L2, L3, DC in watts) and the battery reservation a tick
\* finds, and the system types.
TickSurplusInputs ==
    { <<1500, 0, 0, 0>>, <<0, 0, 900, 300>>, <<640, 0, 0, 0>>, <<0, 0, 0, -300>> }

TickReservationInputs == {0, 1600}

OmbcSystemTypeInputs == {GridConnected1Phase, GridConnected3PhaseSaldating}

\* No ledger: outside of a tick of the control loop there is none.
NoOverhead == SolarOverhead(0, 0, 0, 0, 0)

\* A session after begin(), the ResourceManagerDetails of its resource manager
\* and the confirmation of SelectControlType(OPERATION_MODE_BASED_CONTROL).
ConnectedOmbc(rm) ==
    [rm EXCEPT !.initialized = TRUE, !.rm_details = Some("rm"),
               !.message_receiver = Some("Message"),
               !.disconnect_receiver = Some("Disconnect"),
               !.keep_alive_timer = Some(KEEP_ALIVE_INTERVAL),
               !.active_control_type = Some(OPERATION_MODE_BASED_CONTROL)]

\* The record of a tick: whether its loops ran, the ledger it started from,
\* the log of its calls and whether an exception ended it.
TickRecord(ran, given, log, raised) ==
    [op |-> "tick", ran |-> ran, given |-> given, log |-> log, raised |-> raised]

\* The record of a tick with what it read of the published consumer powers:
\* whether /Ems/PrimaryConsumer/Ac/Power or /Ems/SecondaryConsumer/Ac/Power
\* was above zero.
WithConsumerPower(record, consuming) ==
    [f \in DOMAIN record \cup {"consuming"} |->
        IF f = "consuming" THEN consuming ELSE record[f]]

InitOmbc ==
    /\ system_type \in OmbcSystemTypeInputs
    /\ overhead = NoOverhead
    /\ last = NoCall
    /\ hist = NoHist
    /\ \E consumer_type \in {Primary, Secondary} :
           managed_rms = << ConnectedOmbc(S2RMDelegate(10, consumer_type)) >>
    /\ now = 0
    /\ out = <<>>
    /\ mainloop = NoSources

\* The resource manager of session i sends its OMBC.SystemDescription (a
\* resource manager describes itself once).
OnOmbcSystemDescription ==
    /\ \E i \in DOMAIN managed_rms, message \in SystemDescriptionInputs :
           /\ managed_rms[i].ombc_system_description = None
           /\ IF managed_rms[i].initialized
              THEN /\ managed_rms' = [managed_rms EXCEPT
                                         ![i] = s2_on_ombc_system_description(@, message)]
                   /\ out' = <<ReceptionStatus("OK")>>
              ELSE /\ out' = <<ReceptionStatus("TEMPORARY_ERROR")>>
                   /\ UNCHANGED managed_rms
    /\ last' = [NoCall EXCEPT !.op = "OMBC.SystemDescription"]
    /\ overhead' = NoOverhead
    /\ UNCHANGED <<system_type, hist, now, mainloop>>

\* The resource manager of session i sends an OMBC.Status; without a system
\* description the handler raises on its first line.
OnOmbcStatus ==
    /\ \E i \in DOMAIN managed_rms :
           IF ~managed_rms[i].initialized
           THEN /\ out' = <<ReceptionStatus("TEMPORARY_ERROR")>>
                /\ UNCHANGED managed_rms
           ELSE IF managed_rms[i].ombc_system_description = None
           THEN /\ out' = <<>>
                /\ UNCHANGED managed_rms
           ELSE \E id \in StatusInputs(managed_rms[i]) :
                \E r \in {s2_on_ombc_status(managed_rms[i], id)} :
                    /\ managed_rms' = [managed_rms EXCEPT ![i] = r.rm]
                    /\ out' = r.out
    /\ last' = [NoCall EXCEPT !.op = "OMBC.Status"]
    /\ overhead' = NoOverhead
    /\ UNCHANGED <<system_type, hist, now, mainloop>>

\* EMS._on_timer: one tick of the control loop on a surplus and a battery
\* reservation of the given sets.
TickBody(surplus_inputs, reservation_inputs) ==
    /\ \E s \in surplus_inputs, res \in reservation_inputs :
       \E ov0 \in {SolarOverhead(W(s[1]), W(s[2]), W(s[3]), W(s[4]), W(res))} :
       \E consuming \in IF Total(ov0.power) > 0 THEN {FALSE} ELSE BOOLEAN :
           IF Total(ov0.power) > 0 \/ consuming
           THEN \E c \in {ControlLoop(managed_rms, ov0, now)} :
                    /\ managed_rms' = c.rms
                    /\ overhead' = c.ov
                    /\ out' = c.out
                    /\ last' = WithConsumerPower(TickRecord(TRUE, ov0, c.log, c.raised),
                                                  consuming)
           ELSE /\ overhead' = ov0
                /\ out' = <<>>
                /\ last' = WithConsumerPower(TickRecord(FALSE, ov0, <<>>, FALSE), consuming)
                /\ UNCHANGED managed_rms
    /\ UNCHANGED <<system_type, hist, now>>

\* A tick whose timer is not looked at.
Tick(surplus_inputs, reservation_inputs) ==
    /\ TickBody(surplus_inputs, reservation_inputs)
    /\ UNCHANGED mainloop

OnTimer == Tick(TickSurplusInputs, TickReservationInputs)

\* Half a second passes.
Advance ==
    /\ now < MaxTime
    /\ now' = now + 1
    /\ overhead' = NoOverhead
    /\ last' = [NoCall EXCEPT !.op = "advance"]
    /\ out' = <<>>
    /\ UNCHANGED <<system_type, hist, managed_rms, mainloop>>

NextOmbc == OnOmbcSystemDescription \/ OnOmbcStatus \/ OnTimer \/ Advance

SpecOmbc == InitOmbc /\ [][NextOmbc]_vars

\* ------------------------------------------------------------ OMBC properties

\* The calls of self_assign_overhead the last tick made on sessions under
\* OMBC whose system description and active mode were known.
OmbcAssignments ==
    IF last.op = "tick"
    THEN { e \in Range(last.log) :
             /\ e.op = "self_assign"
             /\ e.after.active_control_type = Some(OPERATION_MODE_BASED_CONTROL)
             /\ e.after.ombc_system_description # None
             /\ e.after.ombc_active_operation_mode # None }
    ELSE {}

\* The modes eligible from the active mode: the active mode and the targets
\* of the transitions that leave it.
EligibleFrom(rm) ==
    { m \in Range(rm.ombc_system_description[1].operation_modes) :
        \/ m.id = rm.ombc_active_operation_mode[1].id
        \/ \E t \in Range(rm.ombc_system_description[1].transitions) :
               t.from = rm.ombc_active_operation_mode[1].id /\ t.to = m.id }

\* All power ranges of the mode m can be claimed from the ledger ov, unforced.
CanClaimAll(ov, m, primary) ==
    ClaimPowerRanges(SolarOverhead_begin(ov).ov, m.power_ranges, 1, primary, FALSE)
        .transaction_running

\* The setting of the example: 1500 W on L1, no reservation, a switch that is off.
C9_Example(e) ==
    /\ system_type = GridConnected1Phase
    /\ e.given.power = PhaseAwareFloat(W(1500), 0, 0, 0)
    /\ e.given.battery_reservation = 0
    /\ { m.id : m \in Range(e.after.ombc_system_description[1].operation_modes) } = {"off", "on"}
    /\ e.after.ombc_active_operation_mode[1].id = "off"

\* C9: the mode self_assign proposes is, of the modes eligible from the active
\* mode whose power ranges can all be claimed from the ledger it was given, one
\* of the highest power; when none can be claimed it is the cheapest eligible
\* mode.  With 1500 W on L1, no reservation and the switch off, the tick sends
\* the instruction for "on" and leaves 100 W on L1.
C9_HighestClaimableMode ==
    \A e \in OmbcAssignments :
        LET rm == e.after
            eligible == EligibleFrom(rm)
            claimable == { m \in eligible : CanClaimAll(e.given, m, rm.consumer_type = Primary) }
            proposed == rm.ombc_next_operation_mode
        IN /\ proposed # None
           /\ proposed[1] \in eligible
           /\ IF claimable # {}
              THEN /\ proposed[1] \in claimable
                   /\ \A m \in claimable : sum_key(m) <= sum_key(proposed[1])
              ELSE \A m \in eligible : sum_key(proposed[1]) <= sum_key(m)
           /\ C9_Example(e) => /\ out = <<OMBCInstruction("on")>>
                               /\ overhead.power.l1 = W(100)

\* C9 witness: from "low" the heater stays in "low" with 640 W on L1, because
\* the more expensive "high" cannot be claimed.
C9_Witness ==
    \E e \in OmbcAssignments :
        /\ e.after.ombc_active_operation_mode[1].id = "low"
        /\ e.after.ombc_next_operation_mode # None
        /\ e.after.ombc_next_operation_mode[1].id = "low"
        /\ e.given.power.l1 = W(640)
        /\ \E m \in EligibleFrom(e.after) :
               /\ m.id = "high"
               /\ ~CanClaimAll(e.given, m, e.after.consumer_type = Primary)

\* The description has a mode of power 0 that every other mode has a
\* transition to.
OffReachableFromEveryMode(system_description) ==
    \E off \in Range(system_description.operation_modes) :
        /\ sum_key(off) = 0
        /\ \A m \in Range(system_description.operation_modes) :
               m.id # off.id =>
                   \E t \in Range(system_description.transitions) :
                       t.from = m.id /\ t.to = off.id

BlockingTimerRunning(rm, t) ==
    /\ rm.ombc_active_operation_mode # None
    /\ rm.ombc_next_operation_mode # None
    /\ \E tr \in Range(rm.ombc_system_description[1].transitions) :
           /\ tr.from = rm.ombc_active_operation_mode[1].id
           /\ tr.to = rm.ombc_next_operation_mode[1].id
           /\ \E id \in Range(tr.blocking_timers) :
                  /\ id \in DOMAIN rm.ombc_timers
                  /\ t < rm.ombc_timer_starts[id] + rm.ombc_timers[id].duration

\* The ledger after the claims of the mode the call e proposed were taken
\* from the ledger it was given, and the claim they make (what
\* overhead.comit() gave the call).
ProposedClaim(e) ==
    LET rm == e.after
        opm == rm.ombc_next_operation_mode[1]
        eligible == EligibleOperationModes(rm)
    IN SolarOverhead_comit(
           ClaimPowerRanges(SolarOverhead_begin(e.given).ov, opm.power_ranges, 1,
                            rm.consumer_type = Primary, opm.id = ForcedState(eligible).id))

\* C11: when the proposed mode is behind a transition with a running blocking
\* timer and its claim is smaller than the claim the session held from the
\* previous tick, the session holds the prior claim after self_assign and the
\* ledger keeps the difference: surplus after the new claim + new claim - prior.
C11_BlockedKeepsPriorClaim ==
    \A e \in OmbcAssignments :
        (/\ ~e.raised
         /\ e.after.ombc_next_operation_mode # None
         /\ BlockingTimerRunning(e.after, now)
         /\ e.prior # None
         /\ Total(ProposedClaim(e).claim[1]) < Total(e.prior[1]))
        => /\ e.after.power_claim = e.prior
           /\ e.left.power = PafSub(PafAdd(ProposedClaim(e).ov.power,
                                           ProposedClaim(e).claim[1]), e.prior[1])

\* The calls of comit() the last tick made.
Comits ==
    IF last.op = "tick" THEN { e \in Range(last.log) : e.op = "comit" } ELSE {}

\* C12: in every comit(), when the proposed mode differs from the active one
\* and a blocking timer of the transition between them is still running
\* (now < start + duration), no instruction is sent and the active mode stays.
C12_RunningTimerBlocksInstruction ==
    \A c \in Comits :
        (/\ c.before[1].ombc_next_operation_mode # None
         /\ c.before[1].ombc_active_operation_mode # c.before[1].ombc_next_operation_mode
         /\ BlockingTimerRunning(c.before[1], now))
        => /\ c.out = <<>>
           /\ c.after.ombc_active_operation_mode = c.before[1].ombc_active_operation_mode

\* ------------------------------------------------------------ Chain specification

\* The minutes the clock of the chain specification runs.
MaxMinutes == 6

\* A minute, in half seconds.
Minute == 120

\* Three modes in a chain off <-> low <-> high; leaving high starts the timer
\* T5 of five minutes that blocks low -> high.
DescChain ==
    SystemDescription(
        << OperationMode("off", <<PowerRange(ELECTRIC_POWER_L1, 0, 0)>>),
           OperationMode("low", <<PowerRange(ELECTRIC_POWER_L1, W(500), W(500))>>),
           OperationMode("high", <<PowerRange(ELECTRIC_POWER_L1, W(2000), W(2000))>>) >>,
        << Transition("off", "low", <<>>, <<>>), Transition("low", "off", <<>>, <<>>),
           Transition("low", "high", <<>>, <<"T5">>), Transition("high", "low", <<"T5">>, <<>>) >>,
        << Timer("T5", 5 * Minute) >>)

\* The surplus (L1, L2, L3, DC in watts) a tick of the chain finds.
ChainSurplusInputs == { <<600, 0, 0, 0>>, <<2600, 0, 0, 0>>, <<0, 0, 0, 0>> }

\* One session under OMBC that has received the description of the chain.
InitChain ==
    /\ system_type \in OmbcSystemTypeInputs
    /\ overhead = NoOverhead
    /\ last = NoCall
    /\ hist = NoHist
    /\ \E consumer_type \in {Primary, Secondary} :
           managed_rms = << s2_on_ombc_system_description(
                                ConnectedOmbc(S2RMDelegate(10, consumer_type)), DescChain) >>
    /\ now = 0
    /\ out = <<>>
    /\ mainloop = NoSources

ChainTick == Tick(ChainSurplusInputs, {0})

\* A minute passes.
AdvanceMinute ==
    /\ now < MaxMinutes * Minute
    /\ now' = now + Minute
    /\ overhead' = NoOverhead
    /\ last' = [NoCall EXCEPT !.op = "advance"]
    /\ out' = <<>>
    /\ UNCHANGED <<system_type, hist, managed_rms, mainloop>>

NextChain == OnOmbcStatus \/ ChainTick \/ AdvanceMinute

SpecChain == InitChain /\ [][NextChain]_vars

\* The call e of self_assign_overhead is the one of the example: active mode
\* "high", 600 W on L1, T5 started a minute ago.
C14_Example(e) ==
    /\ e.after.ombc_active_operation_mode[1].id = "high"
    /\ e.given.power = PhaseAwareFloat(W(600), 0, 0, 0)
    /\ e.given.battery_reservation = 0
    /\ "T5" \in DOMAIN e.after.ombc_timers
    /\ e.after.ombc_timer_starts["T5"] = now - Minute

\* C14: a running timer blocks only the transitions that list it as a
\* blocking timer.  comit() sends the instruction for a proposed mode that
\* differs from the active one whenever no blocking timer of the transition
\* between them is running; with the chain off <-> low <-> high, the active
\* mode "high", 600 W on L1 and the five-minute timer that blocks low -> high
\* started a minute ago, self_assign proposes "low" and comit() sends the
\* instruction for "low".
C14_TimerBlocksOnlyItsTransitions ==
    /\ \A c \in Comits :
           (/\ ~c.raised
            /\ c.before[1].ombc_active_operation_mode # None
            /\ c.before[1].ombc_next_operation_mode # None
            /\ c.before[1].ombc_active_operation_mode # c.before[1].ombc_next_operation_mode
            /\ ~BlockingTimerRunning(c.before[1], now))
           => c.out = <<OMBCInstruction(c.before[1].ombc_next_operation_mode[1].id)>>
    /\ \A e \in OmbcAssignments :
           C14_Example(e)
               => /\ e.after.ombc_next_operation_mode # None
                  /\ e.after.ombc_next_operation_mode[1].id = "low"
                  /\ out = <<OMBCInstruction("low")>>
                  /\ managed_rms[e.delegate].ombc_active_operation_mode[1].id = "low"

\* C14 witness: the example happened, and the instruction for "low" was sent
\* while T5 was running.
C14_Witness ==
    \E e \in OmbcAssignments :
        /\ C14_Example(e)
        /\ now < e.after.ombc_timer_starts["T5"] + e.after.ombc_timers["T5"].duration
        /\ out = <<OMBCInstruction("low")>>

\* ------------------------------------------------------------ EMS specification

\* The priorities of the sessions.
PriorityInputs == {10, 20}

\* The surplus (L1, L2, L3, DC in watts) a tick over several sessions finds.
EmsSurplusInputs == { <<3000, 0, 0, 0>>, <<1500, 0, 0, 0>>, <<0, 0, 0, -300>> }

\* A session after begin(), the ResourceManagerDetails of its resource manager
\* and the confirmation of SelectControlType(NOT_CONTROLABLE).
ConnectedNoCtrl(rm) ==
    [rm EXCEPT !.initialized = TRUE, !.rm_details = Some("rm"),
               !.message_receiver = Some("Message"),
               !.disconnect_receiver = Some("Disconnect"),
               !.keep_alive_timer = Some(KEEP_ALIVE_INTERVAL),
               !.active_control_type = Some(NOT_CONTROLABLE)]

\* A switch under OMBC that has sent its description and reported the mode "off".
SwitchOff(priority, consumer_type) ==
    s2_on_ombc_status(
        s2_on_ombc_system_description(
            ConnectedOmbc(S2RMDelegate(priority, consumer_type)), DescSwitch),
        "off").rm

\* Three sessions in the order they were added to managed_rms: two switches
\* under OMBC and a third that is a switch or not controllable.
InitEms ==
    /\ system_type \in OmbcSystemTypeInputs
    /\ overhead = NoOverhead
    /\ last = NoCall
    /\ hist = NoHist
    /\ \E p1 \in PriorityInputs, p2 \in PriorityInputs, p3 \in PriorityInputs :
       \E third \in { SwitchOff(p3, Secondary), ConnectedNoCtrl(S2RMDelegate(p3, Secondary)) } :
           managed_rms = << SwitchOff(p1, Secondary), SwitchOff(p2, Primary), third >>
    /\ now = 0
    /\ out = <<>>
    /\ mainloop = NoSources

EmsTick == Tick(EmsSurplusInputs, {0})

NextEms == EmsTick

SpecEms == InitEms /\ [][NextEms]_vars

\* The session i is one the first loop of a tick calls self_assign_overhead on.
Controllable(rm) ==
    /\ rm.initialized
    /\ rm.rm_details # None
    /\ rm.active_control_type # None
    /\ rm.active_control_type # Some(NOT_CONTROLABLE)

\* The sessions of the calls op in the log of the last tick, in order.
RECURSIVE CallsOf(_, _, _)
CallsOf(log, i, op) ==
    IF i > Len(log) THEN <<>>
    ELSE (IF log[i].op = op THEN <<log[i].delegate>> ELSE <<>>) \o CallsOf(log, i + 1, op)

\* C15: within a tick self_assign is called on the controllable sessions in
\* ascending order of their priority value, sessions of one priority in the
\* order they were added to the session map; each of them is called once.
C15_AscendingPriority ==
    (last.op = "tick" /\ last.ran /\ ~last.raised) =>
        LET order == CallsOf(last.log, 1, "self_assign")
        IN /\ \A i \in DOMAIN order : \A j \in DOMAIN order :
                  i < j => \/ managed_rms[order[i]].priority < managed_rms[order[j]].priority
                           \/ /\ managed_rms[order[i]].priority = managed_rms[order[j]].priority
                              /\ order[i] < order[j]
           /\ Range(order) = { i \in DOMAIN managed_rms : Controllable(managed_rms[i]) }

\* C15 witness: the session added last has the lowest priority value and is
\* called first, the two sessions before it share a priority and are called
\* in the order they were added.
C15_Witness ==
    /\ last.op = "tick" /\ last.ran
    /\ CallsOf(last.log, 1, "self_assign") = <<3, 1, 2>>
    /\ managed_rms[3].priority < managed_rms[1].priority
    /\ managed_rms[1].priority = managed_rms[2].priority

\* C16: within a tick no session's comit() (and so no instruction) happens
\* before the self_assign of every session has returned: in the log of the
\* tick no call of comit precedes a call of self_assign, and every comit
\* works on the session as the last self_assign of the tick left it.
C16_ComitAfterAllAssigned ==
    (last.op = "tick" /\ last.ran) =>
        /\ \A i \in DOMAIN last.log : \A j \in DOMAIN last.log :
               (last.log[i].op = "comit" /\ last.log[j].op = "self_assign") => j < i
        /\ \A i \in DOMAIN last.log :
               last.log[i].out # <<>> =>
                   \A j \in DOMAIN last.log : last.log[j].op = "self_assign" => j < i

\* C16 witness: three sessions assigned themselves power, then the first
\* comit() of the tick sent an instruction.
C16_Witness ==
    /\ last.op = "tick" /\ last.ran
    /\ Len(CallsOf(last.log, 1, "self_assign")) = 3
    /\ \E i \in DOMAIN last.log :
           /\ last.log[i].op = "comit"
           /\ last.log[i].out # <<>>
           /\ \A j \in 1..(i - 1) : last.log[j].op = "self_assign"

\* --------------------------------------------------------- Session specification

\* The number of SelectControlType messages a session sends.
MaxSelects == 2

\* uuid.uuid4() of the n-th message the session sends with a reply handler.
Uuid(n) == <<"u1", "u2", "u3", "u4">>[n]

\* The message ids of a resource manager.
MessageIdInputs == {"m1", "m2"}

\* The messages of a resource manager, as _s2_on_message_handler parses them.
Handshake(message_id, supports_s2_version) ==
    [message_type |-> "Handshake", message_id |-> message_id,
     supports_s2_version |-> supports_s2_version]

ResourceManagerDetails(message_id, available_control_types) ==
    [message_type |-> "ResourceManagerDetails", message_id |-> message_id,
     available_control_types |-> available_control_types]

OMBCSystemDescription(message_id, description) ==
    [message_type |-> "OMBC.SystemDescription", message_id |-> message_id,
     description |-> description]

OMBCStatus(message_id, active_operation_mode_id) ==
    [message_type |-> "OMBC.Status", message_id |-> message_id,
     active_operation_mode_id |-> active_operation_mode_id]

PowerValue(commodity_quantity, value) ==
    [commodity_quantity |-> commodity_quantity, value |-> value]

PowerMeasurement(message_id, values) ==
    [message_type |-> "PowerMeasurement", message_id |-> message_id, values |-> values]

\* A message type the handler has no branch for.
FRBCSystemDescription(message_id) ==
    [message_type |-> "FRBC.SystemDescription", message_id |-> message_id]

\* The lists of control types a resource manager offers.
ControlTypeInputs ==
    { <<>>, <<NOT_CONTROLABLE>>, <<NOT_CONTROLABLE, OPERATION_MODE_BASED_CONTROL>>,
      <<"FILL_RATE_BASED_CONTROL">>, <<NOT_CONTROLABLE, "FILL_RATE_BASED_CONTROL">> }

\* The messages the resource manager of the session rm may send next, with
\* message ids of the set ids.  It confirms or rejects a pending message of
\* the session or one that is not pending ("u0").
MessageInputs(rm, ids) ==
    { Handshake(id, v) : id \in ids, v \in BOOLEAN }
    \cup { ResourceManagerDetails(id, types) : id \in ids, types \in ControlTypeInputs }
    \cup (IF rm.ombc_system_description = None
          THEN { OMBCSystemDescription(id, DescHeater) : id \in ids }
          ELSE {})
    \cup { OMBCStatus(id, mode) : id \in ids, mode \in {"off", "none"} }
    \cup { PowerMeasurement(id, <<PowerValue(ELECTRIC_POWER_L1, W(500))>>) : id \in ids }
    \cup { PowerMeasurement(id, <<PowerValue(ELECTRIC_POWER_3_PHASE_SYMMETRIC, W(900)),
                                  PowerValue(ELECTRIC_POWER_L2, W(100))>>) : id \in ids }
    \cup { s2_send_reception_message(status, subject) :
               status \in {"OK", "TEMPORARY_ERROR"},
               subject \in DOMAIN rm.reply_handler_dict \cup {"u0"} }
    \cup { FRBCSystemDescription(id) : id \in ids }

\* The surplus of a tick of the session specification.
S2SurplusInputs == { <<0, 0, 900, 300>>, <<0, 0, 0, -300>> }

\* What the history keeps of a session: whether a Handshake was accepted and
\* how many uuids were drawn.
NoSession == [handshake |-> FALSE, selects |-> 0]

\* The record of a message: the message and whether an exception left the
\* handler.
MessageRecord(message, raised) ==
    [op |-> "message", message |-> message, raised |-> raised]

\* EMS.__init__ and the arrival of one S2 service: its delegate is constructed.
InitS2 ==
    /\ system_type = GridConnected1Phase
    /\ overhead = NoOverhead
    /\ last = NoCall
    /\ hist = NoSession
    /\ managed_rms = << S2RMDelegate(10, Primary) >>
    /\ now = 0
    /\ out = <<>>
    /\ mainloop = NoSources

\* begin() of an uninitialized session, at the arrival of the service and at
\* every connection retry after that.
Begin ==
    /\ ~managed_rms[1].initialized
    /\ \E connect \in {"true", "false", "raises"} :
       \E r \in {S2RMDelegate_begin(managed_rms[1], connect, now)} :
           /\ managed_rms' = [managed_rms EXCEPT ![1] = r.rm]
           /\ last' = [op |-> "begin", connect |-> connect, raised |-> r.raised]
    /\ out' = <<>>
    /\ overhead' = NoOverhead
    /\ UNCHANGED <<system_type, hist, now, mainloop>>

\* The signal Message of the session arrives while its receiver is registered,
\* with a message of one of the given types and ids.
Receive(message_types, ids) ==
    /\ managed_rms[1].message_receiver # None
    /\ \E message \in { m \in MessageInputs(managed_rms[1], ids) :
                            m.message_type \in message_types } :
       \E accepts \in IF /\ message.message_type = "ResourceManagerDetails"
                         /\ managed_rms[1].initialized
                         /\ "FILL_RATE_BASED_CONTROL" \in Range(message.available_control_types)
                      THEN BOOLEAN ELSE {TRUE} :
       \E r \in {s2_on_message_handler(managed_rms[1], message, Uuid(hist.selects + 1),
                                       accepts)} :
           /\ Len(r.out) = 2 /\ r.out[2].message_type = "SelectControlType"
                  => hist.selects < MaxSelects
           /\ managed_rms' = [managed_rms EXCEPT ![1] = r.rm]
           /\ out' = r.out
           /\ last' = MessageRecord(message, r.raised)
           /\ hist' = [handshake |-> \/ hist.handshake
                                     \/ /\ message.message_type = "Handshake"
                                        /\ message.supports_s2_version,
                       selects |-> IF /\ Len(r.out) = 2
                                      /\ r.out[2].message_type = "SelectControlType"
                                   THEN hist.selects + 1 ELSE hist.selects]
    /\ overhead' = NoOverhead
    /\ UNCHANGED <<system_type, now, mainloop>>

MessageTypes ==
    { "Handshake", "ResourceManagerDetails", "OMBC.SystemDescription", "OMBC.Status",
      "PowerMeasurement", "ReceptionStatus", "FRBC.SystemDescription" }

OnMessage == Receive(MessageTypes, MessageIdInputs)

NextS2 == Begin \/ OnMessage

SpecS2 == InitS2 /\ [][NextS2]_vars

\* ---------------------------------------------------- Control type specification

\* A heater under operation mode based control that reported "off".
InitCtl ==
    /\ system_type = GridConnected1Phase
    /\ overhead = NoOverhead
    /\ last = NoCall
    /\ hist = NoSession
    /\ managed_rms =
           << s2_on_ombc_status(
                  s2_on_ombc_system_description(ConnectedOmbc(S2RMDelegate(10, Primary)),
                                                DescHeater), "off").rm >>
    /\ now = 0
    /\ out = <<>>
    /\ mainloop = NoSources

\* The resource manager offers its control types again, or confirms a
\* SelectControlType.
OnControlMessage == Receive({"ResourceManagerDetails", "ReceptionStatus"}, {"m1"})

CtlTick == Tick(S2SurplusInputs, {0})

NextCtl == OnControlMessage \/ CtlTick \/ Advance

SpecCtl == InitCtl /\ [][NextCtl]_vars

\* The OMBC.Instruction messages among the messages sent.
Instructions(sent) == { i \in DOMAIN sent : sent[i].message_type = "OMBC.Instruction" }

\* C13: an OMBC.Instruction is sent only by the comit() of a session whose
\* active control type, set by the acknowledged SelectControlType, is
\* OPERATION_MODE_BASED_CONTROL: a session without control type or with
\* NOT_CONTROLABLE is sent none.
C13_InstructionOnlyUnderOmbc ==
    /\ Instructions(out) # {} => last.op = "tick"
    /\ \A c \in Comits :
           c.before[1].active_control_type # Some(OPERATION_MODE_BASED_CONTROL)
           => c.out = <<>> /\ c.after = c.before[1]

\* A tick sent an instruction to a session under operation mode based control
\* that had offered its control types again in the meantime.
C13_Witness ==
    /\ hist.selects > 0
    /\ \E c \in Comits :
           /\ Instructions(c.out) # {}
           /\ c.before[1].active_control_type = Some(OPERATION_MODE_BASED_CONTROL)

\* ------------------------------------------------------------------ Session gate

\* The message has a message_id (a ReceptionStatus has none).
HasMessageId(message) == "message_id" \in DOMAIN message

\* The messages sent are one ReceptionStatus of the given status for the
\* message.
AnsweredWith(sent, status, message) ==
    /\ HasMessageId(message)
    /\ sent = <<s2_send_reception_message(status, message.message_id)>>

\* This step is the handler of a message of a type other than Handshake.
OtherThanHandshake ==
    /\ last'.op = "message"
    /\ last'.message.message_type # "Handshake"

\* C17 as claimed: as long as the session has not accepted a Handshake, every
\* message of another type is answered with TEMPORARY_ERROR and changes no
\* session state.
C17_HandshakeGate ==
    [][ (OtherThanHandshake /\ ~hist.handshake)
        => /\ AnsweredWith(out', "TEMPORARY_ERROR", last'.message)
           /\ managed_rms' = managed_rms ]_vars

\* C17, amended: as long as the session is not initialized (Connect of
\* begin() has not returned true), every message of a type other than
\* Handshake changes no session state, and every such message with a
\* message_id is answered with one TEMPORARY_ERROR for that id; a
\* ReceptionStatus has no message_id and gets no answer.
C17_InitializedGate ==
    [][ (OtherThanHandshake /\ ~managed_rms[1].initialized)
        => /\ managed_rms' = managed_rms
           /\ IF HasMessageId(last'.message)
              THEN AnsweredWith(out', "TEMPORARY_ERROR", last'.message)
              ELSE out' = <<>> /\ last'.raised ]_vars

\* A session that is not initialized, although it accepted a Handshake, has
\* rejected a ResourceManagerDetails: it holds no details and has selected
\* nothing.
C17_Witness ==
    /\ last.op = "message"
    /\ last.message.message_type = "ResourceManagerDetails"
    /\ ~managed_rms[1].initialized
    /\ hist.handshake
    /\ AnsweredWith(out, "TEMPORARY_ERROR", last.message)
    /\ managed_rms[1].rm_details = None
    /\ hist.selects = 0

\* ------------------------------------------------------------ Reception statuses

\* The message types the handler has a branch for.
HandledTypes ==
    { "Handshake", "ResourceManagerDetails", "OMBC.SystemDescription", "OMBC.Status",
      "PowerMeasurement", "ReceptionStatus" }

\* The ReceptionStatus messages among the messages sent, in order.
ReceptionStatuses(sent) == SelectSeq(sent, LAMBDA m : m.message_type = "ReceptionStatus")

\* C18: every received message of a handled type produces exactly one
\* ReceptionStatus, and its subject_message_id is the message_id received.
C18_OneReceptionStatus ==
    (last.op = "message" /\ last.message.message_type \in HandledTypes)
    => /\ Len(ReceptionStatuses(out)) = 1
       /\ HasMessageId(last.message)
       /\ ReceptionStatuses(out)[1].subject_message_id = last.message.message_id

\* --------------------------------------------------------- Control type selection

\* The SelectControlType messages among the messages sent.
Selected(sent) ==
    { sent[i].control_type : i \in { j \in DOMAIN sent :
                                         sent[j].message_type = "SelectControlType" } }

\* The policy on the control types offered: what is to be selected, if
\* anything.
SelectionPolicy(available_control_types) ==
    IF available_control_types = <<NOT_CONTROLABLE>> THEN {NOT_CONTROLABLE}
    ELSE IF OPERATION_MODE_BASED_CONTROL \in Range(available_control_types)
    THEN {OPERATION_MODE_BASED_CONTROL}
    ELSE {}

\* This step is the handler of a ResourceManagerDetails at an initialized
\* session.
OnRmDetails ==
    /\ last'.op = "message"
    /\ last'.message.message_type = "ResourceManagerDetails"
    /\ managed_rms[1].initialized

\* This step is the handler of a ReceptionStatus OK for a SelectControlType
\* of the session that is pending.
SelectConfirmed ==
    /\ last'.op = "message"
    /\ last'.message.message_type = "ReceptionStatus"
    /\ last'.message.status = "OK"
    /\ last'.message.subject_message_id \in DOMAIN managed_rms[1].reply_handler_dict

\* C19: on ResourceManagerDetails the control type of the policy is selected:
\* NOT_CONTROLABLE if it is the only one offered, else
\* OPERATION_MODE_BASED_CONTROL if it is offered, else the message is
\* answered with PERMANENT_ERROR and nothing is selected.  The active control
\* type changes only when a ReceptionStatus OK arrives for the pending
\* SelectControlType.
C19_ControlTypeSelection ==
    [][ /\ OnRmDetails
           => /\ Selected(out') = SelectionPolicy(last'.message.available_control_types)
              /\ SelectionPolicy(last'.message.available_control_types) = {}
                 => /\ s2_send_reception_message("PERMANENT_ERROR", last'.message.message_id)
                           \in Range(out')
                    /\ managed_rms'[1].reply_handler_dict = managed_rms[1].reply_handler_dict
        /\ managed_rms'[1].active_control_type # managed_rms[1].active_control_type
           => /\ SelectConfirmed
              /\ managed_rms'[1].active_control_type =
                     Some(managed_rms[1].reply_handler_dict[last'.message.subject_message_id])
      ]_vars

\* ---------------------------------------------------- Keep-alive specification

\* The last half second of the clock of the keep-alive specification.
MaxClock == 480

\* The half seconds after which the reply of a KeepAlive call arrives: soon,
\* or at the timeout of the D-Bus call.
ReplyDelayInputs == {10, 50}

\* What the history keeps of a connection: when the second failure in a row
\* arrived at it, when it was ended without a begin() since, how often the
\* keep-alive ended it, and the failures in a row that arrived since the last
\* begin() that connected it.
NoConnection == [second |-> None, ended |-> None, ends |-> 0, since |-> 0]

\* The record of a step of the event loop.
LoopRecord(op, result, was_initialized, was_missed) ==
    [op |-> op, result |-> result, was_initialized |-> was_initialized,
     was_missed |-> was_missed]

\* EMS._enable has added the retry timer and the service of one session has
\* arrived: begin() has connected it or not.
InitKeepAlive ==
    /\ system_type = GridConnected1Phase
    /\ overhead = NoOverhead
    /\ last = NoCall
    /\ hist = NoConnection
    /\ \E connect \in {"true", "false"} :
           managed_rms = << S2RMDelegate_begin(S2RMDelegate(10, Primary), connect, 0).rm >>
    /\ now = 0
    /\ out = <<>>
    /\ mainloop = [retry |-> Some(CONNECTION_RETRY_INTERVAL), calls |-> <<>>]

\* The times at which a source of the event loop is due.
DueTimes ==
    Range(managed_rms[1].keep_alive_timer) \cup Range(mainloop.retry)
    \cup Range(mainloop.calls)

\* Time passes until the next source is due.
Pass ==
    /\ DueTimes # {}
    /\ \A due \in DueTimes : now < due
    /\ \E due \in DueTimes :
           /\ \A other \in DueTimes : due <= other
           /\ due <= MaxClock
           /\ now' = due
    /\ last' = LoopRecord("pass", "", managed_rms[1].initialized,
                          managed_rms[1].keep_alive_missed)
    /\ out' = <<>>
    /\ UNCHANGED <<overhead, system_type, hist, managed_rms, mainloop>>

\* The keep-alive timer of the session is due: _keep_alive_loop sends a
\* KeepAlive call and looks at the failures counted so far.
KeepAliveLoop ==
    /\ managed_rms[1].keep_alive_timer = Some(now)
    /\ \E delay \in ReplyDelayInputs :
           mainloop' = [mainloop EXCEPT !.calls = Append(@, now + delay)]
    /\ \E r \in {keep_alive_loop(managed_rms[1], now)} :
           /\ managed_rms' = [managed_rms EXCEPT ![1] = r.rm]
           /\ last' = LoopRecord("keep_alive", IF r.ret THEN "true" ELSE "false",
                                 managed_rms[1].initialized, managed_rms[1].keep_alive_missed)
           /\ hist' = IF r.rm.initialized THEN hist
                      ELSE [hist EXCEPT !.second = None, !.ended = Some(now),
                                        !.ends = @ + 1]
    /\ out' = <<[message_type |-> "KeepAlive"]>>
    /\ UNCHANGED <<overhead, system_type, now>>

\* The reply of the oldest KeepAlive call arrives, or its error.
KeepAliveReply ==
    /\ mainloop.calls # <<>>
    /\ Head(mainloop.calls) = now
    /\ \E result \in {"true", "false", "error"} :
       \E rm \in {keep_alive_reply(managed_rms[1], result)} :
           /\ managed_rms' = [managed_rms EXCEPT ![1] = rm]
           /\ last' = LoopRecord("reply", result, managed_rms[1].initialized,
                                 managed_rms[1].keep_alive_missed)
           /\ hist' = [hist EXCEPT !.second =
                           IF result = "true" \/ ~rm.initialized THEN None
                           ELSE IF managed_rms[1].keep_alive_missed = 1 THEN Some(now)
                           ELSE @,
                                       !.since = IF result = "true" THEN 0 ELSE @ + 1]
    /\ mainloop' = [mainloop EXCEPT !.calls = Tail(@)]
    /\ out' = <<>>
    /\ UNCHANGED <<overhead, system_type, now>>

\* The retry timer is due: EMS._on_timer_retry_connection.  When begin()
\* raises, the exception leaves the callback, and the event loop keeps the
\* timer or drops it.
RetryConnection ==
    /\ mainloop.retry = Some(now)
    /\ \E connect \in {"true", "false", "raises"} :
       \E r \in {on_timer_retry_connection(managed_rms[1], connect, now)} :
       \E kept \in IF r.raised THEN BOOLEAN ELSE {TRUE} :
           /\ managed_rms' = [managed_rms EXCEPT ![1] = r.rm]
           /\ mainloop' = [mainloop EXCEPT !.retry =
                               IF kept THEN Some(now + CONNECTION_RETRY_INTERVAL) ELSE None]
           /\ last' = LoopRecord("retry", IF managed_rms[1].initialized THEN "" ELSE connect,
                                 managed_rms[1].initialized, managed_rms[1].keep_alive_missed)
           /\ hist' = IF managed_rms[1].initialized THEN hist
                      ELSE [hist EXCEPT !.ended = None,
                                        !.since = IF r.rm.initialized THEN 0 ELSE @]
    /\ out' = <<>>
    /\ UNCHANGED <<overhead, system_type, now>>

NextKeepAlive == Pass \/ KeepAliveLoop \/ KeepAliveReply \/ RetryConnection

SpecKeepAlive == InitKeepAlive /\ [][NextKeepAlive]_vars

\* C20: two failures in a row of KeepAlive (a reply false or an error, no
\* reply true in between) end the session: the _keep_alive_loop that finds
\* them calls end(), and the session is uninitialized within 60 s of the
\* second failure; the next tick of the retry timer, 35 s apart, calls
\* begin() on the session; a reply true sets the count of failures to 0.
C20_KeepAlive ==
    /\ (managed_rms[1].initialized /\ hist.second # None)
       => now <= hist.second[1] + 2 * KEEP_ALIVE_INTERVAL
    /\ (last.op = "keep_alive" /\ last.was_missed >= 2)
       => /\ ~managed_rms[1].initialized
          /\ managed_rms[1].keep_alive_timer = None
          /\ managed_rms[1].message_receiver = None
    /\ (hist.ended # None /\ mainloop.retry # None)
       => now <= hist.ended[1] + CONNECTION_RETRY_INTERVAL
    /\ (last.op = "retry" /\ ~last.was_initialized)
       => /\ last.result = "true"
             => /\ managed_rms[1].initialized
                /\ managed_rms[1].keep_alive_timer = Some(now + KEEP_ALIVE_INTERVAL)
          /\ last.result = "raises" => managed_rms[1].message_receiver # None
    /\ (last.op = "reply" /\ last.result = "true") => managed_rms[1].keep_alive_missed = 0

\* A session that the keep-alive ended after two failures in a row is
\* connected again by the retry timer.
C20_Witness ==
    /\ last.op = "retry"
    /\ ~last.was_initialized
    /\ last.was_missed >= 2
    /\ last.result = "true"
    /\ managed_rms[1].initialized
    /\ hist.ends > 0

\* ------------------------------------------------------ Lifecycle specification

\* The record of the removal of a service: its sessions as end() left them.
RemovalRecord(ended) == [op |-> "device_removed", ended |-> ended]

\* One session under operation mode based control whose switch reported "on":
\* the EMS is in control of it.
InitLife ==
    /\ system_type = GridConnected1Phase
    /\ overhead = NoOverhead
    /\ last = NoCall
    /\ hist = NoConnection
    /\ managed_rms =
           << s2_on_ombc_status(
                  s2_on_ombc_system_description(ConnectedOmbc(S2RMDelegate(10, Primary)),
                                                DescSwitch), "on").rm >>
    /\ now = 0
    /\ out = <<>>
    /\ mainloop = [retry |-> Some(CONNECTION_RETRY_INTERVAL), calls |-> <<>>]

\* The signal Disconnect of the session arrives while its receiver is
\* registered.
OnDisconnect ==
    /\ managed_rms[1].disconnect_receiver # None
    /\ managed_rms' = [managed_rms EXCEPT ![1] = s2_on_disconnect_handler(@)]
    /\ last' = LoopRecord("disconnect", "", managed_rms[1].initialized,
                          managed_rms[1].keep_alive_missed)
    /\ out' = <<>>
    /\ UNCHANGED <<overhead, system_type, hist, now, mainloop>>

\* The service of the session leaves the bus (the replies of its calls in
\* flight reach no session any more).
DeviceRemoved ==
    /\ \E r \in {device_removed(managed_rms)} :
           /\ managed_rms' = r.rms
           /\ last' = RemovalRecord(r.ended)
    /\ mainloop' = [mainloop EXCEPT !.calls = <<>>]
    /\ hist' = NoConnection
    /\ out' = <<>>
    /\ UNCHANGED <<overhead, system_type, now>>

\* EMS.device_added: the service is back; its delegate is constructed, added
\* to managed_rms and begun.
DeviceAdded ==
    /\ managed_rms = <<>>
    /\ \E connect \in {"true", "false", "raises"} :
       \E r \in {S2RMDelegate_begin(S2RMDelegate(10, Primary), connect, now)} :
           /\ managed_rms' = <<r.rm>>
           /\ last' = [op |-> "device_added", connect |-> connect, raised |-> r.raised]
    /\ out' = <<>>
    /\ UNCHANGED <<overhead, system_type, hist, now, mainloop>>

NextLife ==
    \/ /\ managed_rms # <<>>
       /\ \/ Pass
          \/ KeepAliveLoop
          \/ KeepAliveReply
          \/ RetryConnection
          \/ OnDisconnect
          \/ DeviceRemoved
    \/ DeviceAdded

SpecLife == InitLife /\ [][NextLife]_vars

\* end() has run on the session and nothing has begun it since.
Ended(rm) ==
    /\ rm.message_receiver = None
    /\ rm.disconnect_receiver = None
    /\ rm.keep_alive_timer = None
    /\ ~rm.initialized
    /\ ~rm.is_active_ems_control

\* C21: a session is ended (receivers and keep-alive timer removed,
\* initialized and is_active_ems_control false) by the removal of its
\* service, by the keep-alive timeout and by a Disconnect signal for it.
C21_SessionEnds ==
    /\ last.op = "device_removed" => \A i \in DOMAIN last.ended : Ended(last.ended[i])
    /\ (last.op = "keep_alive" /\ last.was_missed >= 2) => Ended(managed_rms[1])
    /\ last.op = "disconnect" => Ended(managed_rms[1])


\* ------------------------------------------------------------ Fault specification

\* A boiler whose burner mode has a power range of a commodity other than
\* electric power.
DescBoiler ==
    SystemDescription(
        << OperationMode("burner", <<PowerRange("NATURAL_GAS.FLOW_RATE", 0, W(500))>>),
           OperationMode("off", <<PowerRange(ELECTRIC_POWER_L1, 0, 0)>>) >>,
        << Transition("off", "burner", <<>>, <<>>), Transition("burner", "off", <<>>, <<>>) >>,
        <<>>)

\* A switch that names the transition on -> off twice; each of the two is
\* blocked by the timer T1 that off -> on starts.
DescTwin ==
    SystemDescription(
        << OperationMode("on", <<PowerRange(ELECTRIC_POWER_L1, W(1400), W(1400))>>),
           OperationMode("off", <<PowerRange(ELECTRIC_POWER_L1, 0, 0)>>) >>,
        << Transition("off", "on", <<"T1">>, <<>>), Transition("on", "off", <<>>, <<"T1">>),
           Transition("on", "off", <<>>, <<"T1">>) >>,
        << Timer("T1", 2) >>)

FaultDescriptionInputs == {DescBoiler, DescTwin}

FaultSurplusInputs == { <<3000, 0, 0, 0>>, <<0, 0, 0, -300>> }

\* The timers of the event loop and the mode setting: how many sources call
\* each of the four callbacks of the EMS, besides what NoSources holds, and
\* the balancing offset of EMS.__init__.
Sources(mode, timer, timer_track_power, timer_save_counters, timer_retry_connections) ==
    [retry |-> None, calls |-> <<>>, mode |-> mode, changes |-> 0,
     dcpv_balancing_offset |-> 0, timer |-> timer,
     timer_track_power |-> timer_track_power,
     timer_save_counters |-> timer_save_counters,
     timer_retry_connections |-> timer_retry_connections]

\* EMS._enable: one more source for each of the four callbacks.
EMS_enable(sources) ==
    [sources EXCEPT !.timer = @ + 1, !.timer_track_power = @ + 1,
                    !.timer_save_counters = @ + 1, !.timer_retry_connections = @ + 1]

\* EMS._disable: the sources stay as they are.
EMS_disable(sources) == sources

\* The end of EMS.__init__: the mode setting decides between _enable and
\* _disable.
EMS_init(mode) ==
    IF mode = 1 THEN EMS_enable(Sources(mode, 0, 0, 0, 0))
    ELSE EMS_disable(Sources(mode, 0, 0, 0, 0))

\* What EMS._on_timer returns to the event loop, which keeps the source on
\* TRUE and removes it on FALSE: TRUE at the end of the try block when the
\* mode is On, FALSE after the except clause and when the mode is not On.
on_timer_return(raised, mode) == ~raised /\ mode = 1

\* Two sessions under OMBC, the first to be served with a description of
\* FaultDescriptionInputs, the second a switch; the mode is On.
InitFault ==
    /\ system_type \in OmbcSystemTypeInputs
    /\ overhead = NoOverhead
    /\ last = NoCall
    /\ hist = NoHist
    /\ \E d \in FaultDescriptionInputs, consumer_type \in {Primary, Secondary} :
           managed_rms =
               << s2_on_ombc_status(
                      s2_on_ombc_system_description(
                          ConnectedOmbc(S2RMDelegate(10, consumer_type)), d), "off").rm,
                  SwitchOff(20, Secondary) >>
    /\ now = 0
    /\ out = <<>>
    /\ mainloop = EMS_init(1)

\* The control loop timer fires: a tick, and the source is kept or removed
\* on what _on_timer returns.
FaultTick ==
    /\ mainloop.timer > 0
    /\ TickBody(FaultSurplusInputs, {0})
    /\ mainloop' = [mainloop EXCEPT !.timer =
                        IF on_timer_return(last'.raised, mainloop.mode) THEN @ ELSE @ - 1]

NextFault == FaultTick \/ Advance

SpecFault == InitFault /\ [][NextFault]_vars

\* C22: a tick that an exception ended leaves the control loop timer in
\* place while the mode is On, so that the loop runs again the next period.
C22_RaisingTickKeepsTimer ==
    (last.op = "tick" /\ last.raised /\ mainloop.mode = 1) => mainloop.timer = 1

\* The calls of self_assign_overhead the last tick made.
SelfAssignments ==
    IF last.op = "tick" THEN { e \in Range(last.log) : e.op = "self_assign" } ELSE {}

\* C23: in a tick whose loops ran, no call of self_assign_overhead lets an
\* exception out, each leaves the ledger without an open transaction, and
\* every controllable session was served.
C23_SelfAssignContained ==
    (last.op = "tick" /\ last.ran)
        => /\ \A e \in SelfAssignments : ~e.raised /\ ~e.left.transaction_running
           /\ \A i \in DOMAIN managed_rms :
                  Controllable(managed_rms[i]) => \E e \in SelfAssignments : e.delegate = i


\* ------------------------------------------------------------ Mode specification

\* The number of changes of the mode setting.
MaxSettingChanges == 3

ModeSurplusInputs == { <<3000, 0, 0, 0>>, <<0, 0, 0, -300>> }

\* EMS.settings_changed for the setting ems_mode.
settings_changed(sources, oldvalue, newvalue) ==
    IF oldvalue = 0 /\ newvalue = 1 THEN EMS_enable(sources)
    ELSE IF oldvalue = 1 /\ newvalue = 0 THEN EMS_disable(sources)
    ELSE sources

\* What _on_timer_track_power and _on_timer_save_counters return to the
\* event loop, after the try block and after the except clause alike.
on_timer_track_power_return == TRUE

on_timer_save_counters_return == TRUE

\* The EMS after __init__ with the mode setting On or Off, and one session
\* whose resource manager does not answer Connect.
InitMode ==
    /\ system_type = GridConnected1Phase
    /\ overhead = NoOverhead
    /\ last = NoCall
    /\ hist = NoHist
    /\ managed_rms = << S2RMDelegate_begin(S2RMDelegate(10, Primary), "false", 0).rm >>
    /\ now = 0
    /\ out = <<>>
    /\ mainloop \in {EMS_init(0), EMS_init(1)}

\* The mode setting changes to the other value.
SettingsChanged ==
    /\ mainloop.changes < MaxSettingChanges
    /\ \E newvalue \in {0, 1} \ {mainloop.mode} :
           mainloop' = [settings_changed(mainloop, mainloop.mode, newvalue)
                           EXCEPT !.mode = newvalue, !.changes = @ + 1]
    /\ last' = [NoCall EXCEPT !.op = "settings_changed"]
    /\ overhead' = NoOverhead
    /\ out' = <<>>
    /\ UNCHANGED <<system_type, hist, managed_rms, now>>

\* One of the control loop sources fires.
ModeTick ==
    /\ mainloop.timer > 0
    /\ TickBody(ModeSurplusInputs, {0})
    /\ mainloop' = [mainloop EXCEPT !.timer =
                        IF on_timer_return(last'.raised, mainloop.mode) THEN @ ELSE @ - 1]

\* One of the power tracking sources fires: no session is initialized, the
\* powers published are zero.
TrackPower ==
    /\ mainloop.timer_track_power > 0
    /\ \A i \in DOMAIN managed_rms : ~managed_rms[i].initialized
    /\ mainloop' = [mainloop EXCEPT !.timer_track_power =
                        IF on_timer_track_power_return THEN @ ELSE @ - 1]
    /\ last' = [NoCall EXCEPT !.op = "track_power"]
    /\ overhead' = NoOverhead
    /\ out' = <<>>
    /\ UNCHANGED <<system_type, hist, managed_rms, now>>

\* One of the counter persistence sources fires.
SaveCounters ==
    /\ mainloop.timer_save_counters > 0
    /\ mainloop' = [mainloop EXCEPT !.timer_save_counters =
                        IF on_timer_save_counters_return THEN @ ELSE @ - 1]
    /\ last' = [NoCall EXCEPT !.op = "save_counters"]
    /\ overhead' = NoOverhead
    /\ out' = <<>>
    /\ UNCHANGED <<system_type, hist, managed_rms, now>>

\* One of the connection retry sources fires: begin() of the session, whose
\* Connect call returns false or raises; an exception leaves the callback
\* and the event loop keeps or removes the source.
RetryConnections ==
    /\ mainloop.timer_retry_connections > 0
    /\ \E connect \in {"false", "raises"} :
       \E r \in {on_timer_retry_connection(managed_rms[1], connect, now)} :
       \E kept \in IF r.raised THEN BOOLEAN ELSE {TRUE} :
           /\ managed_rms' = [managed_rms EXCEPT ![1] = r.rm]
           /\ mainloop' = [mainloop EXCEPT !.timer_retry_connections =
                               IF kept THEN @ ELSE @ - 1]
           /\ last' = [NoCall EXCEPT !.op = "retry", !.raised = r.raised]
    /\ overhead' = NoOverhead
    /\ out' = <<>>
    /\ UNCHANGED <<system_type, hist, now>>

NextMode == SettingsChanged \/ ModeTick \/ TrackPower \/ SaveCounters \/ RetryConnections

SpecMode == InitMode /\ [][NextMode]_vars

\* C24: while the mode is Off no source of the four callbacks is left, and
\* no callback ever has more than one source.
C24_TimersFollowMode ==
    /\ mainloop.mode = 0
           => /\ mainloop.timer = 0
              /\ mainloop.timer_track_power = 0
              /\ mainloop.timer_save_counters = 0
              /\ mainloop.timer_retry_connections = 0
    /\ mainloop.timer <= 1
    /\ mainloop.timer_track_power <= 1
    /\ mainloop.timer_save_counters <= 1
    /\ mainloop.timer_retry_connections <= 1


\* ------------------------------------------------------------ Reservation specification

\* Values of the setting ems_batteryreservation: the default, three
\* equations of the state of charge and one that is no expression.
ReservationEquationInputs ==
    {"10000", "(100 - SOC) * 100", "1000 - SOC * 20", "5000 / (100 - SOC)", "SOC *"}

\* round(eval(equation.replace("SOC", str(soc)))) in watts, None when it
\* raises: a syntax error, a division by zero, arithmetic on the text None
\* of an unknown state of charge.
EvalEquation(equation, soc) ==
    IF equation = "10000" THEN Some(10000)
    ELSE IF equation = "SOC *" \/ soc = None THEN None
    ELSE IF equation = "(100 - SOC) * 100" THEN Some((100 - soc[1]) * 100)
    ELSE IF equation = "1000 - SOC * 20" THEN Some(1000 - soc[1] * 20)
    ELSE IF soc[1] = 100 THEN None
    ELSE Some(RoundDiv(5000, 100 - soc[1]))

\* The values of /DynamicEss/ReactiveStrategy that stand for an idle battery.
DessIdleStrategies == {5, 8, 9, 15}

\* EMS.current_battery_reservation in watts: the value it publishes and
\* returns and the hint it publishes, for the charge power capability of the
\* BMS, the charge rate and the reactive strategy of DESS.
current_battery_reservation(equation, soc, capability, dess_charge, dess_rs) ==
    Then(EvalEquation(equation, soc), LAMBDA value :
    IF value = None THEN [reservation |-> 0, state |-> "ERROR"]
    ELSE Then(IF capability # None /\ capability[1] < value[1]
              THEN [reservation |-> capability[1], state |-> "BMS"]
              ELSE [reservation |-> value[1], state |-> "OK"], LAMBDA bms :
         Then(IF dess_charge # None /\ dess_charge[1] > 0
                 /\ dess_charge[1] < bms.reservation
              THEN [reservation |-> dess_charge[1], state |-> "DESS"]
              ELSE bms, LAMBDA dess :
              IF dess_rs # None /\ dess_rs[1] \in DessIdleStrategies
              THEN [reservation |-> 0, state |-> "DESS"]
              ELSE dess)))

ReservationSocInputs == {None, Some(40), Some(80), Some(100)}

CapabilityInputs == {None, Some(0), Some(500), Some(20000)}

DessChargeInputs == {None, Some(0), Some(300), Some(-200)}

DessStrategyInputs == {None, Some(0), Some(5)}

\* What current_battery_reservation reads.
ReservationReadings ==
    [op : {"readings"}, equation : ReservationEquationInputs, soc : ReservationSocInputs,
     capability : CapabilityInputs, dess_charge : DessChargeInputs,
     dess_rs : DessStrategyInputs]

InitReservation ==
    /\ system_type = GridConnected1Phase
    /\ overhead = NoOverhead
    /\ last \in ReservationReadings
    /\ hist = NoHist
    /\ managed_rms = <<>>
    /\ now = 0
    /\ out = <<>>
    /\ mainloop = EMS_init(1)

\* The property current_battery_reservation is read.
CurrentBatteryReservation ==
    /\ last.op = "readings"
    /\ \E r \in {current_battery_reservation(last.equation, last.soc, last.capability,
                                             last.dess_charge, last.dess_rs)} :
           last' = [op |-> "reservation", equation |-> last.equation, soc |-> last.soc,
                    capability |-> last.capability, dess_charge |-> last.dess_charge,
                    dess_rs |-> last.dess_rs, reservation |-> r.reservation,
                    state |-> r.state]
    /\ UNCHANGED <<overhead, system_type, hist, managed_rms, now, out, mainloop>>

\* The state of charge and the values of the BMS and of DESS change.
ReadingsChanged ==
    /\ last.op = "reservation"
    /\ last' \in { r \in ReservationReadings : r.equation = last.equation }
    /\ UNCHANGED <<overhead, system_type, hist, managed_rms, now, out, mainloop>>

NextReservation == CurrentBatteryReservation \/ ReadingsChanged

SpecReservation == InitReservation /\ [][NextReservation]_vars

\* The least of the value of the equation, the capability of the BMS when
\* known and the charge rate of DESS when positive.
LeastOf(value, capability, dess_charge) ==
    Min(value, Min(IF capability # None THEN capability[1] ELSE value,
                   IF dess_charge # None /\ dess_charge[1] > 0 THEN dess_charge[1]
                   ELSE value))

\* C26: when the equation raises, the reservation is 0 and the state ERROR;
\* otherwise it is 0 with the state DESS under an idle strategy of DESS, and
\* else the least of the value, the BMS capability and a positive DESS charge
\* rate, with the state DESS when the DESS rate lowered it, BMS when only the
\* capability did, OK when nothing did; it is never negative.
C26_Reservation ==
    last.op = "reservation"
        => /\ EvalEquation(last.equation, last.soc) = None
                  => last.reservation = 0 /\ last.state = "ERROR"
           /\ EvalEquation(last.equation, last.soc) # None
                  => LET value == EvalEquation(last.equation, last.soc)[1]
                         idle == last.dess_rs # None /\ last.dess_rs[1] \in DessIdleStrategies
                         byDess == /\ last.dess_charge # None /\ last.dess_charge[1] > 0
                                   /\ last.dess_charge[1] < LeastOf(value, last.capability, None)
                         byBms == last.capability # None /\ last.capability[1] < value
                     IN /\ idle => last.reservation = 0 /\ last.state = "DESS"
                        /\ ~idle => /\ last.reservation
                                        = LeastOf(value, last.capability, last.dess_charge)
                                    /\ last.state = IF byDess THEN "DESS"
                                                    ELSE IF byBms THEN "BMS" ELSE "OK"
           /\ last.reservation >= 0

\* ------------------------------------------------------------ Balancing specification

\* SystemType.Unknown and GridConnected2PhaseIndividual, and the members
\* _get_available_overhead raises the balancing offset for.
Unknown == "Unknown"

GridConnected2PhaseIndividual == "GridConnected2PhaseIndividual"

BalancingSystemTypes ==
    {"OffGrid1Phase", "OffGrid2Phase", "OffGrid3Phase",
     "ZeroFeedin1Phase", "ZeroFeedin2Phase", "ZeroFeedin3Phase"}

\* The step and the limit of the balancing offset.
BalancingStep == W(100)

BalancingLimit == W(90000)

\* EMS._determine_system_type on /Ac/Grid/NumberOfPhases,
\* /Ac/ActiveIn/GridParallel and Hub4Mode (None when a value is not there);
\* readable is FALSE when reading one of them raises.
determine_system_type(readable, no_phases, grid_parallel, multiphase_mode) ==
    IF ~readable THEN Unknown
    ELSE IF grid_parallel # None /\ grid_parallel = Some(1)
    THEN IF no_phases = Some(1) THEN GridConnected1Phase
         ELSE IF no_phases = Some(2)
         THEN IF multiphase_mode = Some(1) THEN GridConnected2PhaseSaldating
              ELSE GridConnected2PhaseIndividual
         ELSE IF no_phases = Some(3)
         THEN IF multiphase_mode = Some(1) THEN GridConnected3PhaseSaldating
              ELSE GridConnected3PhaseIndividual
         ELSE Unknown
    ELSE Unknown

\* The balancing offset after lines 1666-1675 of _get_available_overhead.
BalancingOffset(type, offset, soc, balancing_threshold, batrate) ==
    Then(IF /\ type \in BalancingSystemTypes
            /\ soc # None /\ soc[1] >= balancing_threshold + 1
            /\ batrate > 0 /\ offset < BalancingLimit
         THEN offset + BalancingStep
         ELSE offset,
         LAMBDA raised :
         IF soc = None \/ soc[1] <= balancing_threshold - 1 THEN 0 ELSE raised)

\* round(x, 1) of a power.
RoundTenth(x) == RoundDiv(x, Scale \div 10) * (Scale \div 10)

\* A negative phase is taken from the DC surplus.
Deficit(l) == IF l < 0 THEN -l ELSE 0

\* EMS._get_available_overhead without sessions under EMS control: the
\* offset it leaves and the ledger it returns, for the net AC surplus of the
\* phases, the DC PV power and the battery rate.
get_available_overhead(type, offset, soc, balancing_threshold, batrate, l1, l2, l3, dc_pv, reservation) ==
    Then(BalancingOffset(type, offset, soc, balancing_threshold, batrate), LAMBDA o :
         [offset |-> o,
          ov |-> SolarOverhead(
                     RoundTenth(Max(l1, 0)), RoundTenth(Max(l2, 0)), RoundTenth(Max(l3, 0)),
                     RoundTenth(MulRatio(dc_pv, AC_DC_EFFICIENCY)
                                - Deficit(l1) - Deficit(l2) - Deficit(l3) + o),
                     reservation)])

\* What the tick reads: the three values of the system type, the state of
\* charge, the battery power and the surplus.
GridParallelInputs == {None, Some(0), Some(1)}

NumberOfPhasesInputs == {Some(1), Some(3)}

Hub4ModeInputs == {Some(0), Some(1)}

\* The default of the setting ems_balancingthreshold.
BalancingThreshold == 98

SocInputs == {None, Some(97), Some(98), Some(99), Some(100)}

BatteryPowerInputs == {-300, 0, 300}

BalanceSurplusInputs == { <<3000, 0, 0, 0>>, <<-200, 0, 0, 400>> }

\* The record of a tick of the balancing specification: what it read and the
\* offset it started from.
BalanceRecord(ran, raised, grid_parallel, soc, batrate, offset) ==
    [op |-> "balance_tick", ran |-> ran, raised |-> raised, grid_parallel |-> grid_parallel,
     soc |-> soc, batrate |-> batrate, offset |-> offset]

\* The EMS after __init__ with the mode On and no session.
InitBalance ==
    /\ system_type \in {Unknown, GridConnected1Phase}
    /\ overhead = NoOverhead
    /\ last = NoCall
    /\ hist = NoHist
    /\ managed_rms = <<>>
    /\ now = 0
    /\ out = <<>>
    /\ mainloop = EMS_init(1)

\* EMS._on_timer: the system type, the surplus with the balancing offset, the
\* reservation of the default equation without BMS and DESS, and the two loops.
BalanceTick ==
    /\ mainloop.timer > 0
    /\ \E readable \in BOOLEAN, no_phases \in NumberOfPhasesInputs,
          grid_parallel \in GridParallelInputs, multiphase_mode \in Hub4ModeInputs,
          soc \in SocInputs, batrate \in BatteryPowerInputs, s \in BalanceSurplusInputs :
       \E type \in {determine_system_type(readable, no_phases, grid_parallel,
                                          multiphase_mode)} :
       \E a \in {get_available_overhead(type, mainloop.dcpv_balancing_offset, soc,
                                        BalancingThreshold, W(batrate),
                                        W(s[1]), W(s[2]), W(s[3]), W(s[4]),
                                        W(current_battery_reservation(
                                              "10000", soc, None, None, None).reservation))} :
       \E consuming \in IF Total(a.ov.power) > 0 THEN {FALSE} ELSE BOOLEAN :
       \E c \in {IF Total(a.ov.power) > 0 \/ consuming
                 THEN ControlLoop(managed_rms, a.ov, now)
                 ELSE [rms |-> managed_rms, ov |-> a.ov, out |-> <<>>, log |-> <<>>,
                       raised |-> FALSE]} :
           /\ system_type' = type
           /\ managed_rms' = c.rms
           /\ overhead' = c.ov
           /\ out' = c.out
           /\ last' = BalanceRecord(Total(a.ov.power) > 0 \/ consuming, c.raised,
                                    grid_parallel, soc, batrate,
                                    mainloop.dcpv_balancing_offset)
           /\ mainloop' = [mainloop EXCEPT
                               !.dcpv_balancing_offset = a.offset,
                               !.timer = IF on_timer_return(c.raised, mainloop.mode)
                                         THEN @ ELSE @ - 1]
    /\ UNCHANGED <<hist, now>>

NextBalance == BalanceTick

SpecBalance == InitBalance /\ [][NextBalance]_vars

\* C25: after a tick of a system that is not parallel to the grid, with the
\* state of charge at the threshold + 1 or above and the battery charging,
\* the offset is 100 W above what it was, at most 90,000 W; after a tick with
\* the state of charge unknown or at the threshold - 1 or below it is 0; it is
\* always between 0 and 90,000 W.
C25_BalancingOffset ==
    /\ last.op = "balance_tick"
           => /\ (/\ last.grid_parallel = Some(0)
                  /\ last.soc # None /\ last.soc[1] >= BalancingThreshold + 1
                  /\ last.batrate > 0)
                     => mainloop.dcpv_balancing_offset
                            = Min(last.offset + BalancingStep, BalancingLimit)
              /\ (last.soc = None \/ last.soc[1] <= BalancingThreshold - 1)
                     => mainloop.dcpv_balancing_offset = 0
    /\ "dcpv_balancing_offset" \in DOMAIN mainloop
           => /\ mainloop.dcpv_balancing_offset >= 0
              /\ mainloop.dcpv_balancing_offset <= BalancingLimit


\* ------------------------------------------------------------ Cascade specification

\* The system types, the surplus (L1, L2, L3, DC in watts) and the maxima of
\* the claims of the cascade specification.
CascadeSystemTypeInputs ==
    {Unknown, GridConnected1Phase, GridConnected2PhaseSaldating, GridConnected3PhaseSaldating,
     GridConnected2PhaseIndividual, GridConnected3PhaseIndividual}

CascadeSurplusInputs ==
    { <<0, 0, 900, 0>>, <<0, 0, 900, 300>>, <<700, 0, 0, 0>>, <<300, 0, 900, 0>>,
      <<300, 100, 0, 500>>, <<300, 200, 100, 500>>, <<0, 400, 500, -200>> }

CascadeMaxInputs == {300, 600}

\* A ledger on which a transaction was begun.
InitCascade ==
    /\ system_type \in CascadeSystemTypeInputs
    /\ \E s \in CascadeSurplusInputs :
           /\ overhead = SolarOverhead_begin(
                             SolarOverhead(W(s[1]), W(s[2]), W(s[3]), W(s[4]), 0)).ov
           /\ hist = [NoHist EXCEPT !.given = PhaseAwareFloat(W(s[1]), W(s[2]), W(s[3]), W(s[4])),
                                    !.begin_power = PhaseAwareFloat(W(s[1]), W(s[2]), W(s[3]), W(s[4])),
                                    !.depth = 1]
    /\ last = NoCall
    /\ managed_rms = <<>>
    /\ now = 0
    /\ out = <<>>
    /\ mainloop = NoSources

\* The first claim() of the transaction.
CascadeClaim ==
    /\ overhead.power_claim = Some(ZeroPAF)
    /\ last.op # "claim"
    /\ \E c \in Commodities, mx \in CascadeMaxInputs, primary \in BOOLEAN, force \in BOOLEAN :
       \E r \in {SolarOverhead_claim(overhead, c, W(mx), W(mx), primary, force)},
          target \in {ClaimTarget(c, W(mx))} :
       \E missing \in {Total(Cascade([power |-> overhead.power,
                                      claim |-> overhead.power_claim[1],
                                      target |-> target]).target)} :
       /\ overhead' = r.ov
       /\ last' = Call("claim", r, target, W(mx), primary, force, missing)
       /\ hist' = [hist EXCEPT !.tx_claims = 1]
    /\ UNCHANGED <<system_type, managed_rms, now, out, mainloop>>

\* rollback() and the next begin(), as between two modes that
\* _ombc_self_assign_overhead tries.
CascadeRetry ==
    /\ last.op = "claim"
    /\ \E r \in {SolarOverhead_begin(SolarOverhead_rollback(overhead).ov)} :
       /\ overhead' = r.ov
       /\ last' = Call("begin", r, ZeroPAF, 0, FALSE, FALSE, 0)
       /\ hist' = [hist EXCEPT !.tx_claims = 0]
    /\ UNCHANGED <<system_type, managed_rms, now, out, mainloop>>

NextCascade == CascadeClaim \/ CascadeRetry

SpecCascade == InitCascade /\ [][NextCascade]_vars

Saldating == system_type \in {GridConnected2PhaseSaldating, GridConnected3PhaseSaldating}

AcPhases == {"l1", "l2", "l3"}

\* What the claim last made took from the attribute n of the surplus.
Withdrawn(n) == hist.begin_power[n] - overhead.power[n]

\* The part of the demand on the phase n that the surplus of n itself covers.
DirectShare(n) ==
    IF last.target[n] > 0
    THEN IF last.target[n] <= hist.begin_power[n] THEN last.target[n]
         ELSE Max(hist.begin_power[n], 0)
    ELSE 0

\* C27: after a claim every phase has given at least the share of its own
\* demand it can cover, and nothing else is touched when these shares cover
\* the demand. In a saldating 2- or 3-phase system DC is drawn on only when
\* no AC surplus is left (ACDCAC before DC) and a satisfied claim takes what
\* it delivers (penalty 1.0); in every other system another phase gives more
\* than its own share only when no DC surplus is left (DC before ACDCAC), and
\* then more is taken than delivered. Saldating 3-phase, L3 = 900 W only, a
\* symmetric claim of 600 W without reservation: it succeeds, all 600 W are
\* taken from L3 and 300 W are left there.
C27_CascadeOrder ==
    (last.op = "claim" /\ ~last.raised)
        => /\ \A n \in AcPhases : Withdrawn(n) >= DirectShare(n)
           /\ (\A n \in AcPhases : DirectShare(n) = last.target[n])
                  => /\ \A n \in AcPhases : Withdrawn(n) = last.target[n]
                     /\ Withdrawn("dc") = 0
           /\ (Saldating /\ Withdrawn("dc") > 0)
                  => \A n \in AcPhases : overhead.power[n] = 0
           /\ (Saldating /\ last.missing = 0)
                  => Withdrawn("l1") + Withdrawn("l2") + Withdrawn("l3") + Withdrawn("dc")
                         = Total(last.target)
           /\ (~Saldating /\ \E n \in AcPhases : Withdrawn(n) > DirectShare(n))
                  => /\ overhead.power.dc <= 0
                     /\ last.missing = 0
                            => Withdrawn("l1") + Withdrawn("l2") + Withdrawn("l3")
                                   + Withdrawn("dc") > Total(last.target)
           /\ (/\ system_type = GridConnected3PhaseSaldating
               /\ hist.begin_power = PhaseAwareFloat(0, 0, W(900), 0)
               /\ last.target = PhaseAwareFloat(W(200), W(200), W(200), 0))
                  => /\ last.ret
                     /\ overhead.power_claim = Some(PhaseAwareFloat(0, 0, W(600), 0))
                     /\ overhead.power = PhaseAwareFloat(0, 0, W(300), 0)

\* C27 witnesses: the example; a saldating claim that drew on DC after the
\* other phases; a claim of another system that drew on another phase after DC.
C27_Witness ==
    /\ last.op = "claim" /\ ~last.raised /\ last.ret
    /\ system_type = GridConnected3PhaseSaldating
    /\ hist.begin_power = PhaseAwareFloat(0, 0, W(900), 0)
    /\ last.target = PhaseAwareFloat(W(200), W(200), W(200), 0)
    /\ overhead.power.l3 = W(300)

C27_WitnessSaldatingDc ==
    /\ last.op = "claim" /\ ~last.raised /\ Saldating /\ last.missing = 0
    /\ Withdrawn("dc") > 0
    /\ \E n \in AcPhases : Withdrawn(n) > DirectShare(n)

C27_WitnessDcThenAcdcac ==
    /\ last.op = "claim" /\ ~last.raised /\ ~Saldating /\ last.missing = 0
    /\ Withdrawn("dc") > 0
    /\ \E n \in AcPhases : Withdrawn(n) > DirectShare(n)

\* The phase a claim of one phase is for.
ClaimedPhase == CHOOSE n \in AcPhases : last.target[n] > 0

\* A claim of one phase that was satisfied and drew on exactly one other phase.
SingleDonor(q) ==
    /\ last.op = "claim" /\ ~last.raised /\ last.missing = 0
    /\ \E n \in AcPhases : last.target = [ZeroPAF EXCEPT ![n] = last.maxv]
    /\ last.maxv > 0
    /\ q # ClaimedPhase
    /\ Withdrawn(q) > 0
    /\ \A n \in AcPhases \ {q, ClaimedPhase} : Withdrawn(n) = 0

\* The demand that was left for ACDCAC: what neither the phase itself nor DC
\* covered.
AcdcacDemand == last.maxv - DirectShare(ClaimedPhase) - Withdrawn("dc")

\* C28: when the demand W on a phase P that is left for ACDCAC is satisfied
\* from one donor phase Q, Q gives exactly W in a saldating system and
\* W / AC_DC_EFFICIENCY^2 (to the nearest unit) in any other, and P gives
\* nothing beyond its direct share.
C28_AcdcacCost ==
    \A q \in AcPhases :
        SingleDonor(q)
            => /\ Saldating => Withdrawn(q) = AcdcacDemand
               /\ ~Saldating
                      => /\ 2 * Withdrawn(q) * EfficiencySquared[1]
                               - 2 * AcdcacDemand * EfficiencySquared[2]
                                   <= EfficiencySquared[1]
                         /\ 2 * AcdcacDemand * EfficiencySquared[2]
                               - 2 * Withdrawn(q) * EfficiencySquared[1]
                                   <= EfficiencySquared[1]
               /\ Withdrawn(ClaimedPhase) = DirectShare(ClaimedPhase)

\* C28 witnesses: a single donor in a system that is not saldating, after DC
\* gave a part, and a single donor in a saldating system.
C28_Witness ==
    \E q \in AcPhases :
        /\ SingleDonor(q) /\ ~Saldating
        /\ Withdrawn("dc") > 0
        /\ Withdrawn(q) > AcdcacDemand

C28_WitnessSaldating ==
    \E q \in AcPhases : SingleDonor(q) /\ Saldating /\ DirectShare(ClaimedPhase) > 0


\* ------------------------------------------------------------ Eligible modes

\* The modes of the description of rm that a path of exactly two transitions
\* leads to from the active mode, and no single transition.
TwoHopsOnly(rm) ==
    { m \in Range(rm.ombc_system_description[1].operation_modes) \ EligibleFrom(rm) :
        \E t \in Range(rm.ombc_system_description[1].transitions),
           u \in Range(rm.ombc_system_description[1].transitions) :
            /\ t.from = rm.ombc_active_operation_mode[1].id
            /\ t.to = u.from
            /\ u.to = m.id }

\* C29: in every self_assign the modes tried are the active mode and the
\* targets of the transitions that start at it, the mode proposed is one of
\* them, and the forced fallback is a mode of the least power among them:
\* the one proposed when none of them can be claimed unforced.
C29_OneHopModes ==
    \A e \in OmbcAssignments :
        ~e.raised
            => /\ Range(EligibleOperationModes(e.after)) = EligibleFrom(e.after)
               /\ e.after.ombc_next_operation_mode # None
               /\ e.after.ombc_next_operation_mode[1] \in EligibleFrom(e.after)
               /\ e.after.ombc_next_operation_mode[1] \notin TwoHopsOnly(e.after)
               /\ \A m \in EligibleFrom(e.after) :
                      sum_key(ForcedState(EligibleOperationModes(e.after))) <= sum_key(m)
               /\ (\A m \in EligibleFrom(e.after) :
                       ~CanClaimAll(e.given, m, e.after.consumer_type = Primary))
                      => \A m \in EligibleFrom(e.after) :
                             sum_key(e.after.ombc_next_operation_mode[1]) <= sum_key(m)

\* C29 witness: a heater that is off, a surplus from which high, two
\* transitions away, could be claimed, and low is proposed.
C29_Witness ==
    \E e \in OmbcAssignments :
        /\ ~e.raised
        /\ e.after.ombc_active_operation_mode[1].id = "off"
        /\ \E m \in TwoHopsOnly(e.after) :
               /\ m.id = "high"
               /\ CanClaimAll(e.given, m, e.after.consumer_type = Primary)
        /\ e.after.ombc_next_operation_mode # None
        /\ e.after.ombc_next_operation_mode[1].id = "low"

\* C29 witness of the fallback: nothing can be claimed and the mode of the
\* least power, which is not the active one, is proposed.
C29_WitnessForced ==
    \E e \in OmbcAssignments :
        /\ ~e.raised
        /\ \A m \in EligibleFrom(e.after) :
               ~CanClaimAll(e.given, m, e.after.consumer_type = Primary)
        /\ Cardinality(EligibleFrom(e.after)) > 1
        /\ e.after.ombc_next_operation_mode # None
        /\ e.after.ombc_next_operation_mode[1].id # e.after.ombc_active_operation_mode[1].id


\* ------------------------------------------------------------ Comit specification

\* A pump with two speeds: off -> on starts T1 and T9, of which the
\* description defines T1 only; off -> boost starts T3; T1 blocks on -> off.
DescPump ==
    SystemDescription(
        << OperationMode("boost", <<PowerRange(ELECTRIC_POWER_L1, W(2800), W(2800))>>),
           OperationMode("on", <<PowerRange(ELECTRIC_POWER_L1, W(1400), W(1400))>>),
           OperationMode("off", <<PowerRange(ELECTRIC_POWER_L1, 0, 0)>>) >>,
        << Transition("off", "on", <<"T1", "T9">>, <<>>),
           Transition("off", "boost", <<"T3">>, <<>>),
           Transition("on", "off", <<>>, <<"T1">>),
           Transition("on", "boost", <<"T3">>, <<>>),
           Transition("boost", "off", <<>>, <<>>) >>,
        << Timer("T1", 2), Timer("T3", 2) >>)

ComitDescriptionInputs == {DescHeater, DescPump}

ComitSurplusInputs == { <<3000, 0, 0, 0>>, <<1500, 0, 0, 0>>, <<0, 0, 900, 300>>, <<0, 0, 0, -300>> }

\* One session under OMBC that described itself and reported the mode off.
InitComit ==
    /\ system_type \in OmbcSystemTypeInputs
    /\ overhead = NoOverhead
    /\ last = NoCall
    /\ hist = NoHist
    /\ \E d \in ComitDescriptionInputs :
           managed_rms =
               << s2_on_ombc_status(
                      s2_on_ombc_system_description(
                          ConnectedOmbc(S2RMDelegate(10, Secondary)), d), "off").rm >>
    /\ now = 0
    /\ out = <<>>
    /\ mainloop = NoSources

ComitTick == Tick(ComitSurplusInputs, {0})

NextComit == ComitTick \/ OnOmbcStatus \/ Advance

SpecComit == InitComit /\ [][NextComit]_vars

\* The start timers the transitions from the active to the proposed mode of
\* rm list, and those of them the description defines.
ListedStartTimers(rm) ==
    IF rm.ombc_active_operation_mode = None \/ rm.ombc_next_operation_mode = None THEN {}
    ELSE UNION { Range(tr.start_timers) :
                   tr \in { x \in Range(rm.ombc_system_description[1].transitions) :
                              /\ x.from = rm.ombc_active_operation_mode[1].id
                              /\ x.to = rm.ombc_next_operation_mode[1].id } }

DefinedStartTimers(rm) ==
    { tmr \in ListedStartTimers(rm) :
        \E d \in Range(rm.ombc_system_description[1].timers) : d.id = tmr }

\* The comit() c sent the one instruction for the proposed mode, started at
\* now the timers of the set started and no other, and made the proposed
\* mode the active one.
Transitioned(c, started) ==
    /\ c.out = <<OMBCInstruction(c.before[1].ombc_next_operation_mode[1].id)>>
    /\ \A tmr \in started :
           /\ tmr \in DOMAIN c.after.ombc_timer_starts
           /\ c.after.ombc_timer_starts[tmr] = now
    /\ \A tmr \in DOMAIN c.after.ombc_timer_starts \ started :
           /\ tmr \in DOMAIN c.before[1].ombc_timer_starts
           /\ c.after.ombc_timer_starts[tmr] = c.before[1].ombc_timer_starts[tmr]
    /\ c.after.ombc_active_operation_mode = c.before[1].ombc_next_operation_mode

\* The comit() c sent nothing and left the active mode and the timers alone.
Idle(c) ==
    /\ c.out = <<>>
    /\ c.after.ombc_active_operation_mode = c.before[1].ombc_active_operation_mode
    /\ c.after.ombc_timers = c.before[1].ombc_timers
    /\ c.after.ombc_timer_starts = c.before[1].ombc_timer_starts

\* The comit() c of an OMBC session found a proposed mode that is not the
\* active one and no running timer that blocks the transition.
Due(c) ==
    /\ c.before[1].active_control_type = Some(OPERATION_MODE_BASED_CONTROL)
    /\ c.before[1].ombc_next_operation_mode # None
    /\ c.before[1].ombc_active_operation_mode # c.before[1].ombc_next_operation_mode
    /\ ~BlockingTimerRunning(c.before[1], now)

NothingProposed(c) ==
    /\ c.before[1].active_control_type = Some(OPERATION_MODE_BASED_CONTROL)
    /\ \/ c.before[1].ombc_next_operation_mode = None
       \/ c.before[1].ombc_active_operation_mode = c.before[1].ombc_next_operation_mode

\* C30 as stated: a due comit() sends the one instruction, records now as the
\* start of every start timer that the transition lists and of no other, and
\* makes the proposed mode the active one; a comit() without a proposed mode
\* other than the active one sends nothing and leaves mode and timers alone.
C30_ComitListedTimers ==
    \A c \in Comits :
        /\ Due(c) => Transitioned(c, ListedStartTimers(c.before[1]))
        /\ NothingProposed(c) => Idle(c)

\* C30 amended: the same, for the start timers of the transition that the
\* description defines a timer for.
C30_ComitDefinedTimers ==
    \A c \in Comits :
        /\ Due(c) => Transitioned(c, DefinedStartTimers(c.before[1]))
        /\ NothingProposed(c) => Idle(c)

\* C30 witness: a due comit() of a transition that lists a defined and an
\* undefined start timer, while another timer is running.
C30_Witness ==
    \E c \in Comits :
        /\ Due(c)
        /\ DefinedStartTimers(c.before[1]) # {}
        /\ DefinedStartTimers(c.before[1]) # ListedStartTimers(c.before[1])
        /\ c.after.ombc_active_operation_mode[1].id = "on"

\* C30 witnesses: a timer other than the started ones keeps its start, and a
\* comit() with nothing to do while a timer is running.
C30_WitnessOtherTimer ==
    \E c \in Comits :
        /\ Due(c)
        /\ DefinedStartTimers(c.before[1]) # {}
        /\ DOMAIN c.after.ombc_timer_starts \ DefinedStartTimers(c.before[1]) # {}

C30_WitnessIdle ==
    \E c \in Comits :
        /\ NothingProposed(c)
        /\ c.before[1].ombc_next_operation_mode # None
        /\ DOMAIN c.before[1].ombc_timer_starts # {}


\* ------------------------------------------------------------ Timer block

\* The blocking timers of the transitions from the active to the proposed
\* mode of rm that are in its map of running timers.
RunningBlockers(rm) ==
    IF rm.ombc_active_operation_mode = None \/ rm.ombc_next_operation_mode = None THEN {}
    ELSE { id \in Range(BlockingTimers(rm.ombc_system_description[1].transitions, 1,
                                       rm.ombc_active_operation_mode[1].id,
                                       rm.ombc_next_operation_mode[1].id)) :
             id \in DOMAIN rm.ombc_timers }

\* The half seconds the running timer id of rm has left at the time t.
HalfSecondsLeft(rm, id, t) == rm.ombc_timer_starts[id] + rm.ombc_timers[id].duration - t

\* What _ombc_check_timer_block gives for the session rm at the time t,
\* as C31 states it.
TimerBlockAsStated(rm, t) ==
    LET r == ombc_check_timer_block(rm, t) IN
    /\ ~r.raised
    /\ (\/ rm.ombc_active_operation_mode = None
        \/ rm.ombc_next_operation_mode = None
        \/ rm.ombc_active_operation_mode = rm.ombc_next_operation_mode) => r.seconds = 0
    /\ RunningBlockers(rm) = {} => r.seconds = 0
    /\ \A id \in RunningBlockers(rm) :
           HalfSecondsLeft(rm, id, t) <= 0 => id \notin DOMAIN r.rm.ombc_timers
    /\ (\E id \in RunningBlockers(rm) : HalfSecondsLeft(rm, id, t) > 0) => r.seconds > 0

\* C31: for every session under OMBC with a description, at every time, the
\* check returns 0 when the active and the proposed mode are equal or one of
\* them is unknown, and when no blocking timer of the transition is running;
\* it removes every blocking timer with start + duration <= now from the
\* running timers; with a blocking timer that has not expired it returns
\* seconds > 0.
C31_CheckTimerBlock ==
    \A i \in DOMAIN managed_rms :
        managed_rms[i].ombc_system_description # None
            => TimerBlockAsStated(managed_rms[i], now)


\* ------------------------------------------------------------ Deferred transitions

\* A storage heater: off -> on starts the timer T1 of 1.5 s that blocks
\* on -> off.
DescStorage ==
    SystemDescription(
        << OperationMode("on", <<PowerRange(ELECTRIC_POWER_L1, W(1400), W(1400))>>),
           OperationMode("off", <<PowerRange(ELECTRIC_POWER_L1, 0, 0)>>) >>,
        << Transition("off", "on", <<"T1">>, <<>>),
           Transition("on", "off", <<>>, <<"T1">>) >>,
        << Timer("T1", 3) >>)

DeferDescriptionInputs == {DescStorage}

DeferSurplusInputs == { <<3000, 0, 0, 0>>, <<0, 0, 0, -300>> }

\* One session under OMBC that described itself and reported the mode off.
InitDefer ==
    /\ system_type \in OmbcSystemTypeInputs
    /\ overhead = NoOverhead
    /\ last = NoCall
    /\ hist = NoHist
    /\ \E d \in DeferDescriptionInputs :
           managed_rms =
               << s2_on_ombc_status(
                      s2_on_ombc_system_description(
                          ConnectedOmbc(S2RMDelegate(10, Secondary)), d), "off").rm >>
    /\ now = 0
    /\ out = <<>>
    /\ mainloop = NoSources

DeferTick == Tick(DeferSurplusInputs, {0})

\* A tick whose two loops run (there is surplus or a consumer draws power).
RunningTick == DeferTick /\ last'.ran

NextDefer == DeferTick \/ OnOmbcStatus \/ Advance

SpecDefer == InitDefer /\ [][NextDefer]_vars

\* The control loop timer fires again and again, time passes, and again and
\* again a tick finds surplus or consumer power.
SpecDeferFair == SpecDefer /\ WF_vars(Advance) /\ WF_vars(RunningTick)

\* The same for the sessions of InitFault, as long as the control loop has
\* its timer.
SpecFaultFair == SpecFault /\ WF_vars(Advance) /\ WF_vars(FaultTick /\ last'.ran)

ModeIds == {"off", "low", "high", "on"}

\* Session i holds the proposed mode m, which is not its active mode.
Pending(i, m) ==
    /\ managed_rms[i].ombc_next_operation_mode # None
    /\ managed_rms[i].ombc_next_operation_mode[1].id = m
    /\ managed_rms[i].ombc_active_operation_mode # managed_rms[i].ombc_next_operation_mode

\* The last tick's comit() of session i deferred the transition to m because
\* of a running blocking timer.
Deferred(i, m) ==
    /\ Pending(i, m)
    /\ \E c \in Comits :
           /\ c.delegate = i
           /\ c.out = <<>>
           /\ c.before[1].ombc_next_operation_mode = managed_rms[i].ombc_next_operation_mode
           /\ BlockingTimerRunning(c.before[1], now)

\* The last tick's comit() of session i sent the instruction for m.
Issued(i, m) ==
    \E c \in Comits : c.delegate = i /\ c.out = <<OMBCInstruction(m)>>

\* The blocking timers of the pending transition of session i expire within
\* the clock of the model.
ExpiresInTime(i) ==
    \A id \in RunningBlockers(managed_rms[i]) :
        managed_rms[i].ombc_timer_starts[id] + managed_rms[i].ombc_timers[id].duration <= MaxTime

\* The last tick proposed to session i a mode other than m.
ProposedOther(i, m) ==
    /\ last.op = "tick"
    /\ \E e \in Range(last.log) :
           /\ e.op = "self_assign"
           /\ e.delegate = i
           /\ e.after.ombc_next_operation_mode # None
           /\ e.after.ombc_next_operation_mode[1].id # m

\* A pending mode m of session i goes away only with its instruction, with
\* another proposal or with a status report of the resource manager, and a
\* tick that defers it leaves the timer sources alone.
PendingKept ==
    \A i \in DOMAIN managed_rms : \A m \in ModeIds :
        /\ (Pending(i, m) /\ ~Pending(i, m)')
               => Issued(i, m)' \/ ProposedOther(i, m)' \/ last'.op = "OMBC.Status"
        /\ Deferred(i, m)' => mainloop' = mainloop

\* A comit() that finds the proposed mode m other than the active one and
\* every blocking timer of the transition expired sends the instruction.
IssuedOnExpiry ==
    \A c \in Comits :
        (/\ c.before[1].ombc_next_operation_mode # None
         /\ c.before[1].ombc_active_operation_mode # c.before[1].ombc_next_operation_mode
         /\ \A id \in RunningBlockers(c.before[1]) : HalfSecondsLeft(c.before[1], id, now) <= 0)
        => c.out = <<OMBCInstruction(c.before[1].ombc_next_operation_mode[1].id)>>

\* C32: a transition to m that comit() deferred because of a running blocking
\* timer stays proposed until it is instructed, replaced by another proposal
\* or overtaken by a status report, and no timer source is added for it; the
\* comit() of a tick at which the mode is proposed and the timer has expired
\* sends the instruction; and with ticks that keep running, a deferred
\* transition is eventually instructed or replaced.
C32_DeferredNotLost ==
    /\ [][PendingKept]_vars
    /\ []IssuedOnExpiry
    /\ \A i \in {1} : \A m \in ModeIds :
           (Deferred(i, m) /\ ExpiresInTime(i))
               ~> (Issued(i, m) \/ ProposedOther(i, m) \/ last.op = "OMBC.Status")

\* C32 witness: a tick later than the start of the blocking timer T1, which
\* is still in the map of running timers and has expired, proposes off once
\* more and its comit() sends the instruction.
C32_Witness ==
    \E c \in Comits :
        /\ c.out = <<OMBCInstruction("off")>>
        /\ "T1" \in RunningBlockers(c.before[1])
        /\ HalfSecondsLeft(c.before[1], "T1", now) <= 0

\* C32 witness: a deferral that holds at a later time than the one the timer
\* started at.
C32_WitnessDeferred ==
    /\ Deferred(1, "off")
    /\ ExpiresInTime(1)
    /\ managed_rms[1].ombc_timer_starts["T1"] < now


\* ------------------------------------------------------------ Calls of a tick

\* The number of calls op the last tick made on session i.
TimesCalled(op, i) ==
    Cardinality({ k \in DOMAIN last.log : last.log[k].op = op /\ last.log[k].delegate = i })

\* C33: a tick calls self_assign_overhead or comit only when the total
\* surplus of its ledger or a published consumer power is above zero; a tick
\* that runs its loops calls self_assign_overhead once on every session that
\* is initialized, has its details and an acknowledged control type other
\* than NOT_CONTROLABLE, and on no other, and comit once on every initialized
\* session, and on no other.
C33_TickCalls ==
    last.op = "tick" =>
        /\ last.log # <<>> => last.ran
        /\ last.ran => (Total(last.given.power) > 0 \/ last.consuming)
        /\ last.ran =>
               \A i \in DOMAIN managed_rms :
                   /\ TimesCalled("self_assign", i) =
                          (IF Controllable(managed_rms[i]) THEN 1 ELSE 0)
                   /\ TimesCalled("comit", i) =
                          (IF managed_rms[i].initialized THEN 1 ELSE 0)


\* ------------------------------------------------------------ Power measurements

\* The phases by_commodity has an attribute for.
MeteredPhases == {"l1", "l2", "l3"}

\* _current_timestamps of a new session: no sample on any phase (0 in the
\* code).
NoTimestamps == PhaseAwareFloat(None, None, None, None)

\* A session with its energy counter and the timestamps of its last samples.
\* The counter holds power times half seconds: one kWh is
\* Scale * 2 * 3600 * 1000 of its units.
Metered(rm) ==
    [f \in DOMAIN rm \cup {"current_counter", "current_timestamps"} |->
        IF f = "current_counter" THEN ZeroPAF
        ELSE IF f = "current_timestamps" THEN NoTimestamps
        ELSE rm[f]]

\* increase_counter of _s2_on_power_measurement: by_commodity raises a
\* KeyError for a commodity other than the power of L1, L2 or L3.
increase_counter(rm, commodity, value, timestamp) ==
    IF commodity \notin {ELECTRIC_POWER_L1, ELECTRIC_POWER_L2, ELECTRIC_POWER_L3}
    THEN [rm |-> rm, raised |-> TRUE]
    ELSE IF rm.current_timestamps[ByCommodity(commodity)] = None
    THEN [rm |-> [rm EXCEPT !.current_power[ByCommodity(commodity)] = value,
                            !.current_timestamps[ByCommodity(commodity)] = Some(timestamp)],
          raised |-> FALSE]
    ELSE [rm |-> [rm EXCEPT
                     !.current_counter[ByCommodity(commodity)] =
                         @ + rm.current_power[ByCommodity(commodity)]
                               * (timestamp - rm.current_timestamps[ByCommodity(commodity)][1]),
                     !.current_power[ByCommodity(commodity)] = value,
                     !.current_timestamps[ByCommodity(commodity)] = Some(timestamp)],
          raised |-> FALSE]

\* The loop "for pv in message.values" of _s2_on_power_measurement.
RECURSIVE CountValues(_, _, _, _)
CountValues(rm, values, i, timestamp) ==
    IF i > Len(values) THEN [rm |-> rm, raised |-> FALSE]
    ELSE Then(IF values[i].commodity_quantity = ELECTRIC_POWER_3_PHASE_SYMMETRIC
              THEN Then(increase_counter(rm, ELECTRIC_POWER_L1,
                                         RoundDiv(values[i].value, 3), timestamp), LAMBDA a :
                   Then(increase_counter(a.rm, ELECTRIC_POWER_L2,
                                         RoundDiv(values[i].value, 3), timestamp), LAMBDA b :
                        increase_counter(b.rm, ELECTRIC_POWER_L3,
                                         RoundDiv(values[i].value, 3), timestamp)))
              ELSE increase_counter(rm, values[i].commodity_quantity, values[i].value,
                                    timestamp),
              LAMBDA r : IF r.raised THEN r ELSE CountValues(r.rm, values, i + 1, timestamp))

\* S2RMDelegate._s2_on_power_measurement with the counter and the timestamps
\* of the session, for a message measured at measurement_timestamp.
s2_on_power_measurement_counted(rm, message, measurement_timestamp) ==
    IF rm.is_active_ems_control
    THEN Then(CountValues(rm, message.values, 1, measurement_timestamp), LAMBDA r :
              IF r.raised THEN Handled(r.rm, <<>>, TRUE)
              ELSE Handled(r.rm, <<s2_send_reception_message("OK", message.message_id)>>,
                           FALSE))
    ELSE Handled([rm EXCEPT !.current_power = ZeroPAF],
                 <<s2_send_reception_message("OK", message.message_id)>>, FALSE)

\* S2RMDelegate.pop_powerstats of a session that provides measurements: the
\* counter is handed out and starts again.
pop_powerstats(rm) == [rm EXCEPT !.current_counter = ZeroPAF]

\* The values of the measurements a resource manager sends.
MeasurementInputs ==
    { <<PowerValue(ELECTRIC_POWER_L1, W(500))>>,
      <<PowerValue(ELECTRIC_POWER_3_PHASE_SYMMETRIC, W(900)),
        PowerValue(ELECTRIC_POWER_L2, W(100))>>,
      <<PowerValue(ELECTRIC_POWER_L1, W(400)), PowerValue("HEAT.THERMAL_POWER", W(200))>> }

MeterSurplusInputs == { <<3000, 0, 0, 0>>, <<0, 0, 0, -300>> }

\* What is kept of a PowerMeasurement: the session it met, its values and
\* timestamp, and whether the handler raised.
MeasurementRecord(before, message, measurement_timestamp, raised) ==
    [op |-> "PowerMeasurement", before |-> before, message |-> message,
     timestamp |-> measurement_timestamp, raised |-> raised]

\* One switch under OMBC that reported the mode off.
InitMeter ==
    /\ system_type = GridConnected1Phase
    /\ overhead = NoOverhead
    /\ last = NoCall
    /\ hist = NoHist
    /\ managed_rms = << Metered(SwitchOff(10, Secondary)) >>
    /\ now = 0
    /\ out = <<>>
    /\ mainloop = NoSources

MeterTick == Tick(MeterSurplusInputs, {0})

\* The resource manager sends a PowerMeasurement taken at this moment.
OnPowerMeasurement ==
    /\ \E values \in MeasurementInputs :
       \E message \in {PowerMeasurement("m1", values)} :
       \E r \in {s2_on_power_measurement_counted(managed_rms[1], message, now)} :
           /\ managed_rms' = [managed_rms EXCEPT ![1] = r.rm]
           /\ out' = r.out
           /\ last' = MeasurementRecord(managed_rms[1], message, now, r.raised)
    /\ overhead' = NoOverhead
    /\ UNCHANGED <<system_type, hist, now, mainloop>>

\* The power tracking timer collects the counter of the session.
PopPowerstats ==
    /\ managed_rms[1].current_counter # ZeroPAF
    /\ managed_rms' = [managed_rms EXCEPT ![1] = pop_powerstats(@)]
    /\ last' = [NoCall EXCEPT !.op = "pop_powerstats"]
    /\ out' = <<>>
    /\ overhead' = NoOverhead
    /\ UNCHANGED <<system_type, hist, now, mainloop>>

NextMeter == MeterTick \/ OnPowerMeasurement \/ PopPowerstats \/ Advance

SpecMeter == InitMeter /\ [][NextMeter]_vars

\* The values a message reports for the phase, in message order: the value
\* of the phase's commodity, and a third of a symmetric three phase value.
RECURSIVE SamplesOf(_, _, _)
SamplesOf(values, i, phase) ==
    IF i > Len(values) THEN <<>>
    ELSE (IF values[i].commodity_quantity = ELECTRIC_POWER_3_PHASE_SYMMETRIC
          THEN <<RoundDiv(values[i].value, 3)>>
          ELSE IF /\ values[i].commodity_quantity \in
                         {ELECTRIC_POWER_L1, ELECTRIC_POWER_L2, ELECTRIC_POWER_L3}
                  /\ ByCommodity(values[i].commodity_quantity) = phase
          THEN <<values[i].value>>
          ELSE <<>>) \o SamplesOf(values, i + 1, phase)

\* The session after a measurement under EMS control, as C34 states it, on
\* the phase: nothing without a sample; a first sample stores value and
\* timestamp; a later one adds the stored value times the time since the
\* stored timestamp to the counter.
CountedAsStated(before, after, samples, timestamp, phase) ==
    IF samples = <<>>
    THEN /\ after.current_counter[phase] = before.current_counter[phase]
         /\ after.current_power[phase] = before.current_power[phase]
         /\ after.current_timestamps[phase] = before.current_timestamps[phase]
    ELSE /\ after.current_power[phase] = samples[Len(samples)]
         /\ after.current_timestamps[phase] = Some(timestamp)
         /\ after.current_counter[phase] =
                IF before.current_timestamps[phase] = None
                THEN before.current_counter[phase]
                ELSE before.current_counter[phase]
                       + before.current_power[phase]
                           * (timestamp - before.current_timestamps[phase][1])

\* C34: a PowerMeasurement that meets a session outside of EMS control leaves
\* its energy counter alone and sets its current power to 0 on every phase;
\* one that meets a session under EMS control stores value and timestamp of
\* the first sample of a commodity and adds value_prev * (now - prev) to the
\* counter of the commodity for every later one, a symmetric three phase
\* value counting a third on each of L1, L2 and L3; the message is answered
\* with one ReceptionStatus OK.
C34_PowerMeasurement ==
    last.op = "PowerMeasurement" =>
        /\ out = <<s2_send_reception_message("OK", last.message.message_id)>>
        /\ ~last.before.is_active_ems_control
               => /\ managed_rms[1].current_counter = last.before.current_counter
                  /\ managed_rms[1].current_power = ZeroPAF
        /\ last.before.is_active_ems_control
               => \A phase \in MeteredPhases :
                      CountedAsStated(last.before, managed_rms[1],
                                      SamplesOf(last.message.values, 1, phase),
                                      last.timestamp, phase)


\* ------------------------------------------------------------ Surplus specification

\* "x or 0" of a value read from the D-Bus service.
OrZero(v) == IF v = None THEN 0 ELSE W(v[1])

\* Mutant of ControlledPower: the power of every session, under EMS control
\* or not.
RECURSIVE ControlledPower_EverySession(_, _, _)
ControlledPower_EverySession(rms, i, phase) ==
    IF i > Len(rms) THEN 0
    ELSE rms[i].current_power[phase] + ControlledPower_EverySession(rms, i + 1, phase)

\* The loop over managed_rms of _get_available_overhead: the power the
\* sessions under EMS control report on the phase.
RECURSIVE ControlledPower(_, _, _)
ControlledPower(rms, i, phase) ==
    IF i > Len(rms) THEN 0
    ELSE (IF rms[i].is_active_ems_control THEN rms[i].current_power[phase] ELSE 0)
         + ControlledPower(rms, i + 1, phase)

\* l1, l2, l3 of _get_available_overhead before the deficits are moved to DC.
PhaseSurplus(readings, rms, l) ==
    OrZero(readings.pv_on_grid[l]) + OrZero(readings.pv_on_output[l])
        - OrZero(readings.consumption[l]) + ControlledPower(rms, 1, ByPhase[l])

\* What a tick reads of /Ac/PvOnGrid/Lx/Power, /Ac/PvOnOutput/Lx/Power,
\* /Ac/Consumption/Lx/Power and /Dc/Pv/Power, in watts, None for a value that
\* is not there.
Readings(pv_on_grid, pv_on_output, consumption, dc_pv) ==
    [pv_on_grid |-> pv_on_grid, pv_on_output |-> pv_on_output,
     consumption |-> consumption, dc_pv |-> dc_pv]

SurplusReadings ==
    { Readings(<<Some(3000), None, None>>, <<None, None, None>>,
               <<Some(500), None, None>>, None),
      Readings(<<None, None, None>>, <<Some(200), None, None>>,
               <<Some(1700), Some(300), None>>, Some(400)),
      Readings(<<None, Some(600), None>>, <<None, Some(100), Some(50)>>,
               <<Some(1400), Some(200), Some(50)>>, Some(2000)),
      Readings(<<None, None, None>>, <<None, None, None>>, <<None, None, None>>, None) }

\* The state of charge and the reservation equation of the surplus
\* specification: no battery reservation.
SurplusSoc == Some(50)

SurplusEquation == "1000 - SOC * 20"

\* The record of a tick of the surplus specification: what it read, the
\* sessions it met and the ledger it constructed.
SurplusRecord(ran, raised, readings, before, given) ==
    [op |-> "surplus_tick", ran |-> ran, raised |-> raised, readings |-> readings,
     before |-> before, given |-> given]

\* The EMS with the mode On and two switches under OMBC.
InitSurplus ==
    /\ system_type = GridConnected1Phase
    /\ overhead = NoOverhead
    /\ last = NoCall
    /\ hist = NoHist
    /\ managed_rms = << SwitchOff(10, Primary), SwitchOff(20, Secondary) >>
    /\ now = 0
    /\ out = <<>>
    /\ mainloop = EMS_init(1)

\* EMS._on_timer on a single phase grid connected system.
SurplusTick ==
    /\ mainloop.timer > 0
    /\ \E readings \in SurplusReadings :
       \E type \in {determine_system_type(TRUE, Some(1), Some(1), Some(0))} :
       \E a \in {get_available_overhead(
                     type, mainloop.dcpv_balancing_offset, SurplusSoc, BalancingThreshold, 0,
                     PhaseSurplus(readings, managed_rms, 1),
                     PhaseSurplus(readings, managed_rms, 2),
                     PhaseSurplus(readings, managed_rms, 3), OrZero(readings.dc_pv),
                     W(current_battery_reservation(SurplusEquation, SurplusSoc,
                                                   None, None, None).reservation))} :
       \E consuming \in IF Total(a.ov.power) > 0 THEN {FALSE} ELSE BOOLEAN :
       \E c \in {IF Total(a.ov.power) > 0 \/ consuming
                 THEN ControlLoop(managed_rms, a.ov, now)
                 ELSE [rms |-> managed_rms, ov |-> a.ov, out |-> <<>>, log |-> <<>>,
                       raised |-> FALSE]} :
           /\ system_type' = type
           /\ managed_rms' = c.rms
           /\ overhead' = c.ov
           /\ out' = c.out
           /\ last' = SurplusRecord(Total(a.ov.power) > 0 \/ consuming, c.raised, readings,
                                    managed_rms, a.ov)
           /\ mainloop' = [mainloop EXCEPT
                               !.dcpv_balancing_offset = a.offset,
                               !.timer = IF on_timer_return(c.raised, mainloop.mode)
                                         THEN @ ELSE @ - 1]
    /\ UNCHANGED <<hist, now>>

\* The values of the measurements of the switches.
SurplusMeasurementInputs ==
    { <<PowerValue(ELECTRIC_POWER_L1, W(1400))>>,
      <<PowerValue(ELECTRIC_POWER_3_PHASE_SYMMETRIC, W(900))>> }

\* The resource manager of session i sends a PowerMeasurement.
SurplusMeasurement ==
    /\ \E i \in DOMAIN managed_rms, values \in SurplusMeasurementInputs :
       \E r \in {s2_on_power_measurement(managed_rms[i], PowerMeasurement("m1", values))} :
           /\ managed_rms' = [managed_rms EXCEPT ![i] = r.rm]
           /\ out' = r.out
    /\ last' = [NoCall EXCEPT !.op = "measurement"]
    /\ overhead' = NoOverhead
    /\ UNCHANGED <<system_type, hist, now, mainloop>>

NextSurplus == SurplusTick \/ SurplusMeasurement

SpecSurplus == InitSurplus /\ [][NextSurplus]_vars

\* The sum of f[i] over the indices of the set S.
RECURSIVE SumOver(_, _)
SumOver(f, S) ==
    IF S = {} THEN 0 ELSE LET i == CHOOSE j \in S : TRUE IN f[i] + SumOver(f, S \ {i})

\* The surplus of the phase l the last tick started from, as C35 states it:
\* PV on grid plus PV on output minus consumption, absent values as 0, plus
\* the current power of the sessions that were under EMS control.
StatedSurplus(l) ==
    (IF last.readings.pv_on_grid[l] = None THEN 0 ELSE W(last.readings.pv_on_grid[l][1]))
    + (IF last.readings.pv_on_output[l] = None THEN 0 ELSE W(last.readings.pv_on_output[l][1]))
    - (IF last.readings.consumption[l] = None THEN 0 ELSE W(last.readings.consumption[l][1]))
    + SumOver([i \in DOMAIN last.before |-> last.before[i].current_power[ByPhase[l]]],
              { i \in DOMAIN last.before : last.before[i].is_active_ems_control })

\* The DC PV power the last tick read, after the conversion to AC.
StatedDcPv ==
    IF last.readings.dc_pv = None THEN 0
    ELSE MulRatio(W(last.readings.dc_pv[1]), AC_DC_EFFICIENCY)

\* C35: the ledger of a tick has on each phase the surplus of the phase when
\* that is positive and 0 otherwise, so never less than 0, and on DC the DC PV
\* power less the deficits of the phases whose surplus is negative (plus the
\* balancing offset, each value rounded to a tenth of a watt).
C35_AvailableOverhead ==
    last.op = "surplus_tick" =>
        /\ \A l \in 1..3 :
               /\ last.given.power[ByPhase[l]] >= 0
               /\ last.given.power[ByPhase[l]] =
                      (IF StatedSurplus(l) < 0 THEN 0 ELSE RoundTenth(StatedSurplus(l)))
        /\ last.given.power.dc =
               RoundTenth(StatedDcPv
                          - SumOver([l \in 1..3 |-> -StatedSurplus(l)],
                                    { l \in 1..3 : StatedSurplus(l) < 0 })
                          + mainloop.dcpv_balancing_offset)

\* C35 witness: a tick that met a session under EMS control with a power
\* reported, found a deficit on one phase, and read absent values.
C35_Witness ==
    /\ last.op = "surplus_tick"
    /\ \E i \in DOMAIN last.before :
           /\ last.before[i].is_active_ems_control
           /\ last.before[i].current_power.l1 > 0
    /\ \E l \in 1..3 : StatedSurplus(l) < 0
    /\ \E l \in 1..3 : last.readings.pv_on_grid[l] = None
    /\ last.given.power.dc > 0

\* C35 witness: a session that is no longer under EMS control with a power
\* still stored, which the tick does not add.
C35_WitnessStale ==
    /\ last.op = "surplus_tick"
    /\ \E i \in DOMAIN last.before :
           /\ ~last.before[i].is_active_ems_control
           /\ last.before[i].current_power.l1 > 0


\* ------------------------------------------------------------ Connection retries

\* The last step was a tick of the retry timer that called begin() on the
\* session, and Connect had the given outcome.
Retried(outcomes) ==
    /\ last.op = "retry"
    /\ ~last.was_initialized
    /\ last.result \in outcomes

\* C36: after a begin() whose Connect failed the session is uninitialized and
\* has neither signal receivers nor a keep-alive timer; a tick of the retry
\* timer calls begin() on the session exactly when it is not initialized, and
\* the timer stays in place, 35 s apart; after a begin() whose Connect
\* succeeded the session is initialized and has the one keep-alive timer that
\* this begin() added (a session that is not initialized has none).
C36_ConnectFailure ==
    /\ Retried({"false", "raises"})
           => /\ ~managed_rms[1].initialized
              /\ managed_rms[1].message_receiver = None
              /\ managed_rms[1].disconnect_receiver = None
              /\ managed_rms[1].keep_alive_timer = None
              /\ mainloop.retry = Some(now + CONNECTION_RETRY_INTERVAL)
    /\ Retried({"true"})
           => /\ managed_rms[1].initialized
              /\ managed_rms[1].keep_alive_timer = Some(now + KEEP_ALIVE_INTERVAL)
              /\ mainloop.retry = Some(now + CONNECTION_RETRY_INTERVAL)
    /\ last.op = "retry" => (last.was_initialized <=> last.result = "")
    /\ ~managed_rms[1].initialized => managed_rms[1].keep_alive_timer = None


\* ------------------------------------------------------------ Transactions of a tick

\* C37: every call of self_assign_overhead that returns without raising
\* leaves the ledger without an open transaction, and every call is given a
\* ledger without one, so that the begin() of its first mode does not raise.
C37_NoOpenTransaction ==
    \A e \in SelfAssignments :
        /\ ~e.raised => ~e.left.transaction_running
        /\ ~e.given.transaction_running

\* C37 witness: a tick in which the first session's claim raised on a power
\* range of another commodity, the except clause rolled the transaction
\* back, and the second session began its own and found a mode.
C37_Witness ==
    /\ last.op = "tick"
    /\ \E k \in DOMAIN last.log : \E j \in DOMAIN last.log :
           /\ k < j
           /\ last.log[k].op = "self_assign" /\ ~last.log[k].raised
           /\ \E m \in Range(last.log[k].after.ombc_system_description[1].operation_modes) :
                  \E pr \in Range(m.power_ranges) : ~KnownCommodity(pr.commodity_quantity)
           /\ last.log[k].given.power.l1 > 0
           /\ last.log[k].left.power = last.log[k].given.power
           /\ last.log[j].op = "self_assign" /\ ~last.log[j].raised
           /\ last.log[j].after.power_claim # None
           /\ Total(last.log[j].after.power_claim[1]) > 0

\* C37 witness: a call that found no affordable mode but the forced one.
C37_WitnessForced ==
    \E e \in SelfAssignments :
        /\ ~e.raised
        /\ Total(e.given.power) < 0
        /\ e.after.ombc_next_operation_mode # None
        /\ e.after.ombc_next_operation_mode[1].id = "off"


\* ------------------------------------------------------------ Ledger bounds

\* The surplus of the ledger on L1, L2 and L3 is not negative.
PhasesNotNegative ==
    /\ overhead.power.l1 >= 0
    /\ overhead.power.l2 >= 0
    /\ overhead.power.l3 >= 0

\* A step of the ledger that takes the DC surplus further down, to less than
\* the smaller of 0 and what the ledger was constructed with, is a claim
\* with force.
DcTakenByForceOnly ==
    (/\ overhead'.power.dc < overhead.power.dc
     /\ overhead'.power.dc < Min(0, hist.given.dc))
        => last'.op = "claim" /\ last'.force

\* C38: on a ledger constructed with L1, L2, L3 >= 0, whatever begin, claim,
\* comit and rollback are called with maxima >= 0, the surplus of L1, L2 and
\* L3 stays >= 0, and the DC surplus goes below min(0, its first value) only
\* in a claim with force.
C38_LedgerBounds == []PhasesNotNegative /\ [][DcTakenByForceOnly]_vars

\* C38 witness: claims have taken all of a phase, and a forced claim has
\* taken the DC surplus below zero.
C38_Witness ==
    /\ last.op = "claim"
    /\ last.force
    /\ ~last.raised
    /\ hist.given.l3 > 0
    /\ overhead.power.l3 = 0
    /\ overhead.power.dc < Min(0, hist.given.dc)

\* ------------------------------------------------------------ Reconnected strikes

\* The keep-alive has ended the session before, so the connection that the
\* last step ended was established by the retry timer.
EndedAfterReconnect ==
    /\ last.op = "keep_alive"
    /\ last.result = "false"
    /\ hist.ends >= 2

\* C39: failures of KeepAlive do not carry over a reconnect: a session that
\* the keep-alive ended and the retry timer connected again is ended by the
\* keep-alive again only after two failures in a row that arrived since it
\* was connected again; a peer whose replies are all true since then is
\* never ended.
C39_StrikesReset == EndedAfterReconnect => hist.since >= 2

\* ------------------------------------------------------ Reconnect specification

\* The last half second of the clock of the reconnect specification.
MaxReconnectClock == 240

\* The steps of the protocol that lead a session to its first instruction.
\* "SelectControlType" stands for the ReceptionStatus OK that acknowledges it.
ProtocolSteps ==
    { "Handshake", "ResourceManagerDetails", "SelectControlType",
      "OMBC.SystemDescription", "OMBC.Status" }

\* What the history keeps of a session that is connected again: the fields of
\* NoConnection, the uuids drawn, and for every step of the protocol the
\* connection that completed it last.  The connections are numbered by the
\* keep-alive timeouts before them; the first one completed every step.
NoReconnect ==
    [second |-> None, ended |-> None, ends |-> 0, since |-> 0, selects |-> 0,
     renewed |-> [step \in ProtocolSteps |-> 0]]

ReconnectSurplusInputs == { <<1500, 0, 0, 0>>, <<0, 0, 0, -300>> }

\* The steps in the order in which a resource manager takes them.
ProtocolOrder ==
    << "Handshake", "ResourceManagerDetails", "SelectControlType",
       "OMBC.SystemDescription", "OMBC.Status" >>

\* The steps that the resource manager has still to take on this connection.
StepsLeft == { n \in DOMAIN ProtocolOrder : hist.renewed[ProtocolOrder[n]] < hist.ends }

\* The messages the resource manager of the session rm may send: it runs the
\* protocol once on every connection, step by step.
ReconnectMessageInputs(rm) ==
    IF StepsLeft = {} THEN {}
    ELSE LET step == ProtocolOrder[CHOOSE n \in StepsLeft : \A m \in StepsLeft : n <= m]
         IN IF step = "Handshake" THEN { Handshake("m1", TRUE) }
            ELSE IF step = "ResourceManagerDetails"
            THEN { ResourceManagerDetails("m1", <<NOT_CONTROLABLE,
                                                  OPERATION_MODE_BASED_CONTROL>>) }
            ELSE IF step = "SelectControlType"
            THEN { s2_send_reception_message("OK", subject) :
                       subject \in DOMAIN rm.reply_handler_dict }
            ELSE IF step = "OMBC.SystemDescription"
            THEN { OMBCSystemDescription("m1", DescSwitch) }
            ELSE { OMBCStatus("m1", "off") }

\* The step of the protocol that the message completes when its handler
\* takes it, if any.
StepOf(rm, message) ==
    IF ~InitializedGate(rm, message.message_type) THEN {}
    ELSE IF message.message_type = "ReceptionStatus"
    THEN IF message.subject_message_id \in DOMAIN rm.reply_handler_dict
         THEN {"SelectControlType"} ELSE {}
    ELSE IF message.message_type = "OMBC.Status" /\ rm.ombc_system_description = None
    THEN {}
    ELSE {message.message_type} \cap ProtocolSteps

\* A switch under operation mode based control that reported "off"; the
\* retry timer and the keep-alive timer of the session are running.
InitReconnect ==
    /\ system_type = GridConnected1Phase
    /\ overhead = NoOverhead
    /\ last = NoCall
    /\ hist = NoReconnect
    /\ managed_rms =
           << s2_on_ombc_status(
                  s2_on_ombc_system_description(ConnectedOmbc(S2RMDelegate(10, Primary)),
                                                DescSwitch), "off").rm >>
    /\ now = 0
    /\ out = <<>>
    /\ mainloop = [retry |-> Some(CONNECTION_RETRY_INTERVAL), calls |-> <<>>]

\* The signal Message of the session arrives while its receiver is
\* registered.
ReconnectMessage ==
    /\ managed_rms[1].message_receiver # None
    /\ \E message \in ReconnectMessageInputs(managed_rms[1]) :
       \E r \in {s2_on_message_handler(managed_rms[1], message, Uuid(hist.selects + 1),
                                       TRUE)} :
           /\ Len(r.out) = 2 /\ r.out[2].message_type = "SelectControlType"
                  => hist.selects < MaxSelects
           /\ managed_rms' = [managed_rms EXCEPT ![1] = r.rm]
           /\ out' = r.out
           /\ last' = MessageRecord(message, r.raised)
           /\ hist' = [hist EXCEPT
                           !.selects = IF /\ Len(r.out) = 2
                                          /\ r.out[2].message_type = "SelectControlType"
                                       THEN @ + 1 ELSE @,
                           !.renewed = [step \in ProtocolSteps |->
                                           IF step \in StepOf(managed_rms[1], message)
                                           THEN hist.ends ELSE @[step]]]
    /\ overhead' = NoOverhead
    /\ UNCHANGED <<system_type, now, mainloop>>

ReconnectTick == Tick(ReconnectSurplusInputs, {0})

\* Time passes until the next source is due, up to the last half second of
\* the clock of this specification.
ReconnectPass == Pass /\ now' <= MaxReconnectClock

NextReconnect ==
    \/ ReconnectPass
    \/ KeepAliveLoop
    \/ KeepAliveReply
    \/ RetryConnection
    \/ ReconnectMessage
    \/ ReconnectTick

SpecReconnect == InitReconnect /\ [][NextReconnect]_vars

\* The last step was a tick that sent an OMBC.Instruction to the session
\* after the keep-alive had ended it and the retry timer connected it again.
InstructedAfterReconnect ==
    /\ last.op = "tick"
    /\ Instructions(out) # {}
    /\ hist.ends >= 1

\* C40: the state of the protocol does not survive end(): a session that the
\* keep-alive ended and the retry timer connected again is sent no
\* OMBC.Instruction until it has completed a new Handshake, sent its
\* ResourceManagerDetails, acknowledged SelectControlType and reported a new
\* OMBC system description and status.
C40_FreshProtocol ==
    InstructedAfterReconnect => \A step \in ProtocolSteps : hist.renewed[step] = hist.ends

====
